---------------------------- MODULE Spec2Model ----------------------------
(***************************************************************************)
(* Model of the go-escape-ai game engine (package game, engine.go) and of  *)
(* the built-in scenario of main.go.  Text is kept as text: commands,      *)
(* names, ids and descriptions are strings, and the matching the engine    *)
(* does (lower-casing, whitespace splitting, substring containment) is     *)
(* computed character by character as the Go library functions do.        *)
(***************************************************************************)
EXTENDS Integers, Sequences, FiniteSets, TLC

(***************************************************************************)
(* Bounds of the model.                                                    *)
(***************************************************************************)
\* commands accepted in one session of a test world
MaxCommands == 5
\* whole minutes that may pass during a session
MaxMinutes == 1

(***************************************************************************)
(* package strings                                                         *)
(***************************************************************************)
Min(S) == CHOOSE x \in S : \A y \in S : x <= y

UpperLetters == "ABCDEFGHIJKLMNOPQRSTUVWXYZ"
LowerLetters == "abcdefghijklmnopqrstuvwxyz"

\* the character (a string of length 1) at position i of s
CharAt(s, i) == SubSeq(s, i, i)

\* unicode.ToLower on the ASCII range: the characters it changes
lowerTable ==
    [c \in {CharAt(UpperLetters, i) : i \in 1..26} |->
        CharAt(LowerLetters, CHOOSE i \in 1..26 : CharAt(UpperLetters, i) = c)]

\* strings.ToLower: every upper-case letter is replaced, the rest is kept
RECURSIVE ToLower(_)
ToLower(s) ==
    LET U == {i \in 1..Len(s) : CharAt(s, i) \in DOMAIN lowerTable}
    IN  IF U = {} THEN s
        ELSE SubSeq(s, 1, Min(U) - 1) \o lowerTable[CharAt(s, Min(U))]
                \o ToLower(SubSeq(s, Min(U) + 1, Len(s)))

\* strings.Index, 1-based; 0 when sub does not occur in s
Index(s, sub) ==
    LET P == {i \in 1..(Len(s) - Len(sub) + 1) : SubSeq(s, i, i + Len(sub) - 1) = sub}
    IN  IF P = {} THEN 0 ELSE Min(P)

\* strings.Contains
Contains(s, sub) ==
    \E i \in 1..(Len(s) - Len(sub) + 1) : SubSeq(s, i, i + Len(sub) - 1) = sub

\* unicode.IsSpace on the characters a console line can hold
IsSpace(c) == c \in {" ", "\t"}

\* strings.TrimSpace
RECURSIVE TrimSpace(_)
TrimSpace(s) ==
    IF Len(s) = 0 THEN ""
    ELSE IF IsSpace(CharAt(s, 1)) THEN TrimSpace(SubSeq(s, 2, Len(s)))
    ELSE IF IsSpace(CharAt(s, Len(s))) THEN TrimSpace(SubSeq(s, 1, Len(s) - 1))
    ELSE s

\* strings.Fields: the maximal runs of non-space characters, in order
RECURSIVE Fields(_)
Fields(s) ==
    IF Len(s) = 0 THEN << >>
    ELSE IF IsSpace(CharAt(s, 1)) THEN Fields(SubSeq(s, 2, Len(s)))
    ELSE LET Sp == {i \in 1..Len(s) : IsSpace(CharAt(s, i))}
         IN  IF Sp = {} THEN << s >>
             ELSE << SubSeq(s, 1, Min(Sp) - 1) >> \o Fields(SubSeq(s, Min(Sp) + 1, Len(s)))

\* strings.Join
RECURSIVE Join(_, _)
Join(parts, sep) ==
    IF Len(parts) = 0 THEN ""
    ELSE IF Len(parts) = 1 THEN parts[1]
    ELSE parts[1] \o sep \o Join(Tail(parts), sep)

\* strings.Split for a non-empty separator
RECURSIVE Split(_, _)
Split(s, sep) ==
    LET i == Index(s, sep)
    IN  IF i = 0 THEN << s >>
        ELSE << SubSeq(s, 1, i - 1) >> \o Split(SubSeq(s, i + Len(sep), Len(s)), sep)

\* strings.EqualFold on the ASCII range
EqualFold(a, b) == ToLower(a) = ToLower(b)

(***************************************************************************)
(* main.go: the built-in scenario                                          *)
(***************************************************************************)
createFallbackScenario(theme) ==
    [ Theme |-> theme,
      Setting |-> "Your late uncle's study",
      BackStory |-> "You've inherited your eccentric uncle's house. The study door slammed shut behind you and won't budge. Your uncle was known for his clever puzzles and hidden treasures. There must be a way out that reveals what he left for you.",
      Rooms |-> <<
        [ ID |-> "study",
          Name |-> "Uncle's Study",
          Description |-> "A cozy study filled with your uncle's eclectic collections. Tall bookshelves line the walls, packed with leather-bound volumes. His mahogany desk dominates the center, cluttered with papers, a vintage brass compass, and an ornate letter opener. A grandfather clock ticks steadily in the corner, its pendulum catching the light. Above the fireplace hangs a large painting of a sailing ship. The door you entered through won't budge - there must be another way out.",
          Items |-> << "compass", "letter_opener", "ship_painting", "loose_book", "desk_drawer" >>,
          Puzzles |-> << "painting_puzzle", "clock_puzzle" >>,
          Exits |-> << "hidden_passage" >>,
          Locked |-> FALSE, UnlockKey |-> "" ],
        [ ID |-> "hidden_passage",
          Name |-> "Hidden Passage",
          Description |-> "A narrow stone passage behind the bookshelf, lit by flickering torches. The walls are carved with nautical symbols and star charts. At the end stands an ornate treasure chest with multiple locks, and beside it, a final door marked with your family's crest.",
          Items |-> << "treasure_map", "family_letter", "gold_coins" >>,
          Puzzles |-> << "treasure_chest" >>,
          Exits |-> << "victory" >>,
          Locked |-> TRUE, UnlockKey |-> "solved_puzzles" ],
        [ ID |-> "victory",
          Name |-> "Freedom and Fortune",
          Description |-> "You step into the garden, breathing fresh air and clutching your uncle's final gift - both treasure and the knowledge that you were clever enough to earn it.",
          Items |-> << >>,
          Puzzles |-> << >>,
          Exits |-> << >>,
          Locked |-> FALSE, UnlockKey |-> "" ]
      >>,
      Items |-> <<
        [ ID |-> "compass",
          Name |-> "brass compass",
          Description |-> "An antique brass compass with intricate engravings. The needle points north, but when you rotate it, you notice it has multiple directional markings and seems to be more than just a navigation tool.",
          Usable |-> TRUE, UseWith |-> "", Hidden |-> FALSE, RevealedBy |-> "" ],
        [ ID |-> "letter_opener",
          Name |-> "ornate letter opener",
          Description |-> "A beautiful silver letter opener with your family crest on the handle. It's sharp and well-crafted, and seems important to your uncle.",
          Usable |-> TRUE, UseWith |-> "", Hidden |-> FALSE, RevealedBy |-> "" ],
        [ ID |-> "ship_painting",
          Name |-> "ship painting",
          Description |-> "A large oil painting of a three-masted sailing ship on stormy seas. The frame is ornate and heavy. Something about the ship's flag seems familiar, and you notice the painting isn't quite flush against the wall.",
          Usable |-> FALSE, UseWith |-> "", Hidden |-> FALSE, RevealedBy |-> "" ],
        [ ID |-> "loose_book",
          Name |-> "leather journal",
          Description |-> "A well-worn leather journal that was sticking out from the bookshelf. It contains your uncle's notes about 'the family legacy' and sketches of compass directions, star charts, and what looks like a map of this very house.",
          Usable |-> TRUE, UseWith |-> "", Hidden |-> TRUE, RevealedBy |-> "examine_books" ],
        [ ID |-> "desk_drawer",
          Name |-> "mysterious key",
          Description |-> "An unusual key made of dark metal with astronomical symbols etched along its length. It's heavier than it looks and seems to be made for something important.",
          Usable |-> TRUE, UseWith |-> "", Hidden |-> TRUE, RevealedBy |-> "examine_desk" ],
        [ ID |-> "solved_puzzles",
          Name |-> "knowledge",
          Description |-> "Your understanding of your uncle's puzzles - this opens the way forward.",
          Usable |-> TRUE, UseWith |-> "", Hidden |-> TRUE, RevealedBy |-> "" ],
        [ ID |-> "treasure_map",
          Name |-> "treasure map",
          Description |-> "An authentic treasure map showing several islands and marked with an X. This must be worth a fortune to collectors!",
          Usable |-> FALSE, UseWith |-> "", Hidden |-> FALSE, RevealedBy |-> "" ],
        [ ID |-> "family_letter",
          Name |-> "family letter",
          Description |-> "A letter from your uncle: 'My dear heir, if you're reading this, you've proven yourself worthy of the family treasure. Use it wisely, and remember - the real treasure was the puzzles we solved along the way.'",
          Usable |-> FALSE, UseWith |-> "", Hidden |-> FALSE, RevealedBy |-> "" ],
        [ ID |-> "gold_coins",
          Name |-> "gold coins",
          Description |-> "A collection of genuine Spanish doubloons and other antique coins. Your uncle's treasure is real!",
          Usable |-> FALSE, UseWith |-> "", Hidden |-> FALSE, RevealedBy |-> "" ]
      >>,
      Puzzles |-> <<
        [ ID |-> "painting_puzzle",
          Name |-> "The Ship's Secret",
          Description |-> "The ship painting isn't quite flush with the wall. Maybe something can move it aside to reveal what's behind.",
          Solution |-> "move painting",
          RequiredItems |-> << "letter_opener" >>,
          Reward |-> "You use the letter opener to carefully pry the painting aside. Behind it is a hidden panel with a compass rose carved into the wood!",
          Solved |-> FALSE ],
        [ ID |-> "clock_puzzle",
          Name |-> "Time and Direction",
          Description |-> "The grandfather clock shows the current time, but the compass rose behind the painting has directional markings. Your uncle's journal mentions 'when the clock points north'.",
          Solution |-> "twelve",
          RequiredItems |-> << "compass", "loose_book" >>,
          Reward |-> "You realize 12 o'clock is north on a compass! You set the clock hands to 12, and hear a mechanism grinding behind the bookshelf.",
          Solved |-> FALSE ],
        [ ID |-> "treasure_chest",
          Name |-> "Uncle's Legacy",
          Description |-> "A beautiful chest with your family crest. It has three keyholes - but you only found one key. The other locks seem to respond to something else.",
          Solution |-> "use key and compass",
          RequiredItems |-> << "desk_drawer", "compass" >>,
          Reward |-> "The mysterious key fits perfectly! The compass, when placed in a depression on the lid, completes the mechanism. The chest opens to reveal maps, gold, and your uncle's final letter.",
          Solved |-> FALSE ]
      >>,
      Actions |-> <<
        [ ID |-> "examine_desk",
          Trigger |-> [Type |-> "examine", Target |-> "desk", With |-> ""],
          Conditions |-> << >>,
          Effects |-> << [Type |-> "reveal_item", Target |-> "desk_drawer", Value |-> ""] >>,
          Message |-> "You search through your uncle's desk drawers. Most are locked, but one slides open to reveal an unusual key made of dark metal with strange astronomical symbols.",
          OneTimeOnly |-> TRUE ],
        [ ID |-> "examine_books",
          Trigger |-> [Type |-> "examine", Target |-> "bookshelf", With |-> ""],
          Conditions |-> << >>,
          Effects |-> << [Type |-> "reveal_item", Target |-> "loose_book", Value |-> ""] >>,
          Message |-> "As you scan the bookshelves, one leather journal catches your eye - it's sticking out slightly. You pull it free to find your uncle's personal notes about the 'family legacy' and detailed sketches.",
          OneTimeOnly |-> TRUE ],
        [ ID |-> "move_painting",
          Trigger |-> [Type |-> "use_with", Target |-> "letter_opener", With |-> "painting"],
          Conditions |-> << [Type |-> "has_item", Value |-> "letter_opener"] >>,
          Effects |-> << [Type |-> "add_inventory", Target |-> "solved_puzzles", Value |-> ""] >>,
          Message |-> "You carefully use the letter opener to pry the painting aside. Behind it, carved into the wood, is an intricate compass rose with directional markings!",
          OneTimeOnly |-> TRUE ],
        [ ID |-> "solve_clock",
          Trigger |-> [Type |-> "use_with", Target |-> "compass", With |-> "clock"],
          Conditions |-> << [Type |-> "has_item", Value |-> "loose_book"], [Type |-> "puzzle_solved", Value |-> "painting_puzzle"] >>,
          Effects |-> << [Type |-> "unlock_room", Target |-> "hidden_passage", Value |-> ""] >>,
          Message |-> "Following your uncle's notes, you realize that 12 o'clock corresponds to north on the compass rose! You adjust the clock hands, and with a grinding sound, the bookshelf swings aside to reveal a hidden passage!",
          OneTimeOnly |-> TRUE ]
      >>,
      WinCondition |-> "Discover your uncle's clues, solve his puzzles, and claim the family treasure.",
      Hints |-> (
    "study" :> "Your uncle left clues throughout his study. The desk, bookshelves, painting, and grandfather clock all seem important. Start by examining them carefully."      @@ "hidden_passage" :> "You've found your uncle's secret chamber! The treasure chest requires both the mysterious key and something else to complete the mechanism."),
      ProgressiveHints |-> <<
        [ Context |-> "study",
          Triggers |-> << [Type |-> "commands_tried", Threshold |-> 3] >>,
          HintText |-> "Your uncle was methodical. Start by examining the obvious things: his desk, the bookshelves, and that interesting painting.",
          Priority |-> 1 ],
        [ Context |-> "study",
          Triggers |-> << [Type |-> "commands_tried", Threshold |-> 7] >>,
          HintText |-> "That painting of the ship looks like it could be moved. The letter opener might be useful for more than just opening letters.",
          Priority |-> 2 ],
        [ Context |-> "study",
          Triggers |-> << [Type |-> "commands_tried", Threshold |-> 12] >>,
          HintText |-> "The compass, journal, and clock seem connected. Your uncle's notes mention 'when the clock points north' - think about how clocks and compasses relate.",
          Priority |-> 3 ],
        [ Context |-> "painting_puzzle",
          Triggers |-> << [Type |-> "failed_attempts", Threshold |-> 2] >>,
          HintText |-> "The painting isn't flush with the wall. Try using a tool to carefully move it aside.",
          Priority |-> 4 ],
        [ Context |-> "clock_puzzle",
          Triggers |-> << [Type |-> "failed_attempts", Threshold |-> 2] >>,
          HintText |-> "On a compass, north is at 12 o'clock. Your uncle's journal talks about 'when the clock points north'.",
          Priority |-> 5 ]
      >> ]

\* the theme the player typed at the prompt of loadOrCreateScenario
FallbackScenario == createFallbackScenario("Pirate Ship")

(***************************************************************************)
(* A scenario document as the generator or the save file may deliver it:   *)
(* it has a dangling item id, a dangling puzzle id and a dangling exit,     *)
(* each first in its list, a locked room with a key                        *)
(* and one without, two items whose names share a word, an item named in   *)
(* the room description, the items of the built-in combination rule, two   *)
(* actions one command triggers, actions that declare no target, and a    *)
(* hint that failed attempts alone trigger.                                *)
(***************************************************************************)
AtticScenario ==
    [ Theme |-> "Haunted Victorian Mansion",
      Setting |-> "The attic of the mansion",
      BackStory |-> "The hatch fell shut behind you.",
      Rooms |-> <<
        [ ID |-> "attic",
          Name |-> "Dusty Attic",
          Description |-> "A dusty attic. An old Desk stands beside a wax candle.",
          Items |-> << "ghost", "matches", "candle", "coin", "gold", "note" >>,
          Puzzles |-> << "phantom", "riddle", "lockbox" >>,
          Exits |-> << "nowhere", "vault", "cellar" >>,
          Locked |-> FALSE, UnlockKey |-> "" ],
        [ ID |-> "cellar",
          Name |-> "Wine Cellar",
          Description |-> "A damp cellar full of empty racks.",
          Items |-> << >>,
          Puzzles |-> << >>,
          Exits |-> << "attic" >>,
          Locked |-> TRUE, UnlockKey |-> "coin" ],
        [ ID |-> "vault",
          Name |-> "Bank Vault",
          Description |-> "A steel vault.",
          Items |-> << >>,
          Puzzles |-> << >>,
          Exits |-> << >>,
          Locked |-> TRUE, UnlockKey |-> "" ]
      >>,
      Items |-> <<
        [ ID |-> "matches",
          Name |-> "box of matches",
          Description |-> "A box with three matches left.",
          Usable |-> TRUE, UseWith |-> "candle", Hidden |-> FALSE, RevealedBy |-> "" ],
        [ ID |-> "candle",
          Name |-> "wax candle",
          Description |-> "A stub of a candle.",
          Usable |-> FALSE, UseWith |-> "", Hidden |-> FALSE, RevealedBy |-> "" ],
        [ ID |-> "coin",
          Name |-> "Silver coin",
          Description |-> "A worn silver coin.",
          Usable |-> TRUE, UseWith |-> "", Hidden |-> FALSE, RevealedBy |-> "" ],
        [ ID |-> "gold",
          Name |-> "gold coin",
          Description |-> "A heavy gold coin.",
          Usable |-> TRUE, UseWith |-> "", Hidden |-> TRUE, RevealedBy |-> "examine_desk" ],
        [ ID |-> "note",
          Name |-> "torn note",
          Description |-> "The note reads: what answers but never speaks?",
          Usable |-> FALSE, UseWith |-> "", Hidden |-> TRUE, RevealedBy |-> "use_matches" ]
      >>,
      Puzzles |-> <<
        [ ID |-> "riddle",
          Name |-> "The Riddle",
          Description |-> "Something answers you from the rafters.",
          Solution |-> "Echo",
          RequiredItems |-> << "coin" >>,
          Reward |-> "The rafters fall silent.",
          Solved |-> FALSE ],
        [ ID |-> "lockbox",
          Name |-> "The Lockbox",
          Description |-> "A small box with a dial.",
          Solution |-> "seven",
          RequiredItems |-> << >>,
          Reward |-> "The box clicks open.",
          Solved |-> FALSE ]
      >>,
      Actions |-> <<
        [ ID |-> "examine_desk",
          Trigger |-> [Type |-> "examine", Target |-> "desk", With |-> ""],
          Conditions |-> << >>,
          Effects |-> << [Type |-> "reveal_item", Target |-> "gold", Value |-> ""] >>,
          Message |-> "A gold coin rolls out of the desk.",
          OneTimeOnly |-> TRUE ],
        [ ID |-> "listen",
          Trigger |-> [Type |-> "examine", Target |-> "rafters", With |-> ""],
          Conditions |-> << >>,
          Effects |-> << >>,
          Message |-> "Dust falls from the rafters.",
          OneTimeOnly |-> FALSE ],
        [ ID |-> "cold_coin",
          Trigger |-> [Type |-> "take", Target |-> "silver", With |-> ""],
          Conditions |-> << [Type |-> "has_item", Value |-> "coin"] >>,
          Effects |-> << >>,
          Message |-> "The silver coin is cold to the touch.",
          OneTimeOnly |-> FALSE ],
        [ ID |-> "creak",
          Trigger |-> [Type |-> "examine", Target |-> "Raft", With |-> ""],
          Conditions |-> << >>,
          Effects |-> << >>,
          Message |-> "A board creaks overhead.",
          OneTimeOnly |-> TRUE ],
        [ ID |-> "strike",
          Trigger |-> [Type |-> "use_with", Target |-> "", With |-> "Candle"],
          Conditions |-> << >>,
          Effects |-> << >>,
          Message |-> "The flame gutters.",
          OneTimeOnly |-> FALSE ],
        [ ID |-> "fumble",
          Trigger |-> [Type |-> "use", Target |-> "", With |-> ""],
          Conditions |-> << >>,
          Effects |-> << >>,
          Message |-> "Your fingers are numb with cold.",
          OneTimeOnly |-> FALSE ]
      >>,
      WinCondition |-> "Solve the riddle and open the lockbox.",
      Hints |-> ("attic" :> "Look at the desk."),
      ProgressiveHints |-> <<
        [ Context |-> "attic",
          Triggers |-> << [Type |-> "commands_tried", Threshold |-> 3] >>,
          HintText |-> "Have you searched the desk?",
          Priority |-> 1 ],
        [ Context |-> "riddle",
          Triggers |-> << [Type |-> "failed_attempts", Threshold |-> 1],
                          [Type |-> "time_spent", Threshold |-> 1] >>,
          HintText |-> "It repeats what you say.",
          Priority |-> 2 ],
        [ Context |-> "riddle",
          Triggers |-> << [Type |-> "failed_attempts", Threshold |-> 1] >>,
          HintText |-> "Say it aloud and listen.",
          Priority |-> 3 ]
      >> ]

\* the documents a scenario pointer of the model can refer to
ScenarioNames == {"fallback", "attic"}

\* the ids of a room's list that resolve among the entries of the document
Resolving(ids, entries) ==
    SelectSeq(ids, LAMBDA id : \E i \in 1..Len(entries) : entries[i].ID = id)

\* the document s with every id that does not resolve taken out of the item,
\* puzzle and exit lists of its rooms
Pruned(s) ==
    [s EXCEPT !.Rooms =
        [r \in 1..Len(s.Rooms) |->
            [s.Rooms[r] EXCEPT !.Items = Resolving(@, s.Items),
                               !.Puzzles = Resolving(@, s.Puzzles),
                               !.Exits = Resolving(@, s.Rooms)]]]

\* the document s with another solution for every puzzle
OtherSolutions(s) ==
    [s EXCEPT !.Puzzles =
        [i \in 1..Len(s.Puzzles) |-> [s.Puzzles[i] EXCEPT !.Solution = "not " \o @]]]

\* the id of the item that stands in for the item with index i
OtherID(i) == "item_" \o ToString(i)

\* the document s with another item (id, name and description) in the place
\* of each item with an index in H, in the item list and in the rooms
OtherItems(s, H) ==
    [s EXCEPT
        !.Items = [i \in 1..Len(s.Items) |->
            IF i \in H
            THEN [s.Items[i] EXCEPT !.ID = OtherID(i), !.Name = "brass key",
                                    !.Description = "A small brass key."]
            ELSE s.Items[i]],
        !.Rooms = [r \in 1..Len(s.Rooms) |->
            [s.Rooms[r] EXCEPT !.Items =
                [k \in 1..Len(s.Rooms[r].Items) |->
                    IF \E i \in H : s.Items[i].ID = s.Rooms[r].Items[k]
                    THEN OtherID(CHOOSE i \in H : s.Items[i].ID = s.Rooms[r].Items[k])
                    ELSE s.Rooms[r].Items[k]]]]]

\* actions with every type of condition and of effect: two conditions of
\* which either can fail alone, an action without a message, an effect on
\* an item the player holds and on one the player does not hold, and two
\* actions, one declared before "pocket" and one after it, that the same
\* command triggers and that need what "pocket" hands out and records, and
\* an action that needs "drop", which is not one-time-only, to be performed
EffectActions ==
    << [ ID |-> "pry",
         Trigger |-> [Type |-> "examine", Target |-> "hatch", With |-> ""],
         Conditions |-> << [Type |-> "has_item", Value |-> "coin"],
                           [Type |-> "in_room", Value |-> "attic"] >>,
         Effects |-> << [Type |-> "unlock_room", Target |-> "vault", Value |-> ""] >>,
         Message |-> "The hatch gives way.",
         OneTimeOnly |-> FALSE ],
       [ ID |-> "hush",
         Trigger |-> [Type |-> "examine", Target |-> "rafters", With |-> ""],
         Conditions |-> << [Type |-> "puzzle_solved", Value |-> "riddle"],
                           [Type |-> "action_performed", Value |-> "pocket"] >>,
         Effects |-> << [Type |-> "hide_item", Target |-> "matches", Value |-> ""] >>,
         Message |-> "",
         OneTimeOnly |-> FALSE ],
       [ ID |-> "glance",
         Trigger |-> [Type |-> "take", Target |-> "coin", With |-> ""],
         Conditions |-> << [Type |-> "has_item", Value |-> "gold"],
                           [Type |-> "action_performed", Value |-> "pocket"] >>,
         Effects |-> << >>,
         Message |-> "",
         OneTimeOnly |-> FALSE ],
       [ ID |-> "pocket",
         Trigger |-> [Type |-> "take", Target |-> "coin", With |-> ""],
         Conditions |-> << >>,
         Effects |-> << [Type |-> "add_inventory", Target |-> "coin", Value |-> ""],
                        [Type |-> "add_inventory", Target |-> "gold", Value |-> ""] >>,
         Message |-> "You pocket what you find.",
         OneTimeOnly |-> TRUE ],
       [ ID |-> "weigh",
         Trigger |-> [Type |-> "take", Target |-> "coin", With |-> ""],
         Conditions |-> << [Type |-> "has_item", Value |-> "gold"],
                           [Type |-> "action_performed", Value |-> "pocket"] >>,
         Effects |-> << >>,
         Message |-> "",
         OneTimeOnly |-> FALSE ],
       [ ID |-> "drop",
         Trigger |-> [Type |-> "use", Target |-> "coin", With |-> ""],
         Conditions |-> << >>,
         Effects |-> << [Type |-> "remove_inventory", Target |-> "coin", Value |-> ""],
                        [Type |-> "remove_inventory", Target |-> "lit_candle", Value |-> ""] >>,
         Message |-> "The coin slips through a crack.",
         OneTimeOnly |-> FALSE ],
       [ ID |-> "rue",
         Trigger |-> [Type |-> "use", Target |-> "coin", With |-> ""],
         Conditions |-> << [Type |-> "action_performed", Value |-> "drop"] >>,
         Effects |-> << >>,
         Message |-> "You should have held on to it.",
         OneTimeOnly |-> FALSE ],
       [ ID |-> "examine_desk",
         Trigger |-> [Type |-> "examine", Target |-> "desk", With |-> ""],
         Conditions |-> << >>,
         Effects |-> << [Type |-> "reveal_item", Target |-> "gold", Value |-> ""] >>,
         Message |-> "A gold coin rolls out of the desk.",
         OneTimeOnly |-> TRUE ] >>

\* the document s with these actions in the place of its own, and with the
\* silver coin declared for use with the candle
WithEffects(s) == [s EXCEPT !.Actions = EffectActions, !.Items[3].UseWith = "candle"]

\* the document s as a document that defines no actions
WithoutActions(s) == [s EXCEPT !.Actions = << >>]

\* the documents the pointers of a session on the attic document can refer
\* to: the document itself and the documents it is compared with
AtticNames ==
    { "attic", "attic_pruned", "attic_solutions", "attic_gold", "attic_note",
      "attic_gold_note", "attic_effects", "attic_plain" }

AtticVariant(s, p) ==
    CASE p = "attic" -> s
      [] p = "attic_pruned" -> Pruned(s)
      [] p = "attic_solutions" -> OtherSolutions(s)
      [] p = "attic_gold" -> OtherItems(s, {4})
      [] p = "attic_note" -> OtherItems(s, {5})
      [] p = "attic_gold_note" -> OtherItems(s, {4, 5})
      [] p = "attic_effects" -> WithEffects(s)
      [] p = "attic_plain" -> WithoutActions(s)

AtticDocuments == [p \in AtticNames |-> AtticVariant(AtticScenario, p)]

\* the document behind a scenario pointer, as it was loaded
Doc(p) == IF p = "fallback" THEN FallbackScenario ELSE AtticDocuments[p]

(***************************************************************************)
(* State: the fields of GameState.  Scenario is the pointer to the loaded  *)
(* document; Hidden and Locked hold the two fields of the document the     *)
(* engine writes (Items[i].Hidden, Rooms[i].Locked), by index.             *)
(* Minutes is the time since StartTime in whole minutes.  err,             *)
(* actionProcessed and fired record the last ProcessCommand call: the      *)
(* error it returned, what its processActions call returned, the indices   *)
(* of the actions that call fired, in order, and the id of the item its    *)
(* handleTake call appended to the inventory ("" when it appended none).   *)
(* The console: Main is the file whose gameLoop runs, client tells whether *)
(* llm.NewClient returned a client, pc is the position of gameLoop, input  *)
(* the line it read, and log the calls and prints of the current pass of   *)
(* its loop, in order.                                                     *)
(***************************************************************************)
VARIABLES Scenario, Hidden, Locked, CurrentRoom, Inventory, SolvedPuzzles,
          DiscoveredItems, PerformedActions, FailedAttempts, CommandAttempts,
          Moves, Minutes, GameWon, LastAction, LastResult,
          err, actionProcessed, fired, taken,
          Main, client, pc, input, log,
          saveFile, scenario

vars == << Scenario, Hidden, Locked, CurrentRoom, Inventory, SolvedPuzzles,
           DiscoveredItems, PerformedActions, FailedAttempts, CommandAttempts,
           Moves, Minutes, GameWon, LastAction, LastResult,
           err, actionProcessed, fired, taken,
           Main, client, pc, input, log,
           saveFile, scenario >>

\* the variables of the console
console == << Main, client, pc, input, log >>

\* the engine state as one value, the *GameState the handlers work on
State ==
    [ Scenario |-> Scenario, Hidden |-> Hidden, Locked |-> Locked,
      CurrentRoom |-> CurrentRoom, Inventory |-> Inventory,
      SolvedPuzzles |-> SolvedPuzzles, DiscoveredItems |-> DiscoveredItems,
      PerformedActions |-> PerformedActions, FailedAttempts |-> FailedAttempts,
      CommandAttempts |-> CommandAttempts, Moves |-> Moves, GameWon |-> GameWon,
      LastAction |-> LastAction, LastResult |-> LastResult,
      err |-> err, actionProcessed |-> actionProcessed, fired |-> fired, taken |-> taken ]

\* NewEngine(scenario)
NewEngine(p) ==
    [ Scenario |-> p,
      Hidden |-> [i \in 1..Len(Doc(p).Items) |-> Doc(p).Items[i].Hidden],
      Locked |-> [i \in 1..Len(Doc(p).Rooms) |-> Doc(p).Rooms[i].Locked],
      CurrentRoom |-> Doc(p).Rooms[1].ID,
      Inventory |-> << >>, SolvedPuzzles |-> << >>, DiscoveredItems |-> << >>,
      PerformedActions |-> << >>, FailedAttempts |-> << >>,
      CommandAttempts |-> 0, Moves |-> 0, GameWon |-> FALSE,
      LastAction |-> "", LastResult |-> "",
      err |-> "", actionProcessed |-> FALSE, fired |-> << >>, taken |-> "" ]

(***************************************************************************)
(* scenario.go: lookups.  A lookup yields the index of the first entry     *)
(* with the id, or 0 where the Go function returns its "not found" error.  *)
(***************************************************************************)
GetRoom(s, id) ==
    LET F == {i \in 1..Len(s.Rooms) : s.Rooms[i].ID = id}
    IN  IF F = {} THEN 0 ELSE Min(F)

GetItem(s, id) ==
    LET F == {i \in 1..Len(s.Items) : s.Items[i].ID = id}
    IN  IF F = {} THEN 0 ELSE Min(F)

GetPuzzle(s, id) ==
    LET F == {i \in 1..Len(s.Puzzles) : s.Puzzles[i].ID = id}
    IN  IF F = {} THEN 0 ELSE Min(F)

(***************************************************************************)
(* engine.go: queries                                                      *)
(***************************************************************************)
GetCurrentRoom(st) == GetRoom(Doc(st.Scenario), st.CurrentRoom)

\* HasItem with a loop that stops one entry short of the end of the inventory
HasItemSkipsLast(st, itemID) ==
    \E k \in 1..(Len(st.Inventory) - 1) : st.Inventory[k] = itemID

HasItem(st, itemID) == \E k \in 1..Len(st.Inventory) : st.Inventory[k] = itemID

\* IsPuzzleSolved with a loop that stops one entry short of the end of the list
IsPuzzleSolvedSkipsLast(st, puzzleID) ==
    \E k \in 1..(Len(st.SolvedPuzzles) - 1) : st.SolvedPuzzles[k] = puzzleID

IsPuzzleSolved(st, puzzleID) ==
    \E k \in 1..Len(st.SolvedPuzzles) : st.SolvedPuzzles[k] = puzzleID

\* puzzle.Solved of the puzzle with index i: the field of the document, which
\* no statement of the engine assigns
PuzzleSolved(st, i) == Doc(st.Scenario).Puzzles[i].Solved

hasPerformedAction(st, actionID) ==
    \E k \in 1..Len(st.PerformedActions) : st.PerformedActions[k] = actionID

IsGameWon(st) == st.GameWon

\* a handler dereferences the nil room that GetCurrentRoom returned with its error
Panic(st) == [st EXCEPT !.err = "panic: nil pointer dereference"]

(***************************************************************************)
(* engine.go: the action engine                                            *)
(***************************************************************************)
\* matchesAction that compares the targets for equality
matchesActionExact(action, actionType, target, withItem) ==
    IF action.Trigger.Type # actionType THEN FALSE
    ELSE IF ToLower(target) # ToLower(action.Trigger.Target) THEN FALSE
    ELSE IF action.Trigger.With # ""
            /\ ~Contains(ToLower(withItem), ToLower(action.Trigger.With)) THEN FALSE
    ELSE TRUE

matchesAction(action, actionType, target, withItem) ==
    IF action.Trigger.Type # actionType THEN FALSE
    ELSE IF ~Contains(ToLower(target), ToLower(action.Trigger.Target)) THEN FALSE
    ELSE IF action.Trigger.With # ""
            /\ ~Contains(ToLower(withItem), ToLower(action.Trigger.With)) THEN FALSE
    ELSE TRUE

\* one case of the switch of checkActionConditions
conditionHolds(st, condition) ==
    CASE condition.Type = "has_item" -> HasItem(st, condition.Value)
      [] condition.Type = "in_room" -> st.CurrentRoom = condition.Value
      [] condition.Type = "puzzle_solved" -> IsPuzzleSolved(st, condition.Value)
      [] condition.Type = "action_performed" -> hasPerformedAction(st, condition.Value)
      [] OTHER -> TRUE

\* checkActionConditions that is content with one condition that holds
checkActionConditionsAny(st, conditions) ==
    \E k \in 1..Len(conditions) : conditionHolds(st, conditions[k])

checkActionConditions(st, conditions) ==
    \A k \in 1..Len(conditions) : conditionHolds(st, conditions[k])

\* Items[i].Hidden = hidden for the first item with the id (loop with break)
setHidden(st, id, hidden) ==
    LET i == GetItem(Doc(st.Scenario), id)
    IN  IF i = 0 THEN st ELSE [st EXCEPT !.Hidden[i] = hidden]

\* Rooms[i].Locked = false for the first room with the id (loop with break)
unlockRoom(st, id) ==
    LET i == GetRoom(Doc(st.Scenario), id)
    IN  IF i = 0 THEN st ELSE [st EXCEPT !.Locked[i] = FALSE]

\* case "add_inventory"
addInventory(st, id) ==
    IF ~HasItem(st, id) THEN [st EXCEPT !.Inventory = Append(@, id)] ELSE st

\* remove_inventory that cuts out the last occurrence
removeInventoryLast(st, id) ==
    LET F == {k \in 1..Len(st.Inventory) : st.Inventory[k] = id}
        last == CHOOSE k \in F : \A j \in F : j <= k
    IN  IF F = {} THEN st
        ELSE [st EXCEPT !.Inventory = SubSeq(@, 1, last - 1) \o SubSeq(@, last + 1, Len(@))]

\* case "remove_inventory": the first occurrence is cut out
removeInventory(st, id) ==
    LET F == {k \in 1..Len(st.Inventory) : st.Inventory[k] = id}
    IN  IF F = {} THEN st
        ELSE [st EXCEPT !.Inventory =
                 SubSeq(@, 1, Min(F) - 1) \o SubSeq(@, Min(F) + 1, Len(@))]

\* one case of the switch of executeActionEffects
applyEffect(st, effect) ==
    CASE effect.Type = "reveal_item" -> setHidden(st, effect.Target, FALSE)
      [] effect.Type = "hide_item" -> setHidden(st, effect.Target, TRUE)
      [] effect.Type = "unlock_room" -> unlockRoom(st, effect.Target)
      [] effect.Type = "add_inventory" -> addInventory(st, effect.Target)
      [] effect.Type = "remove_inventory" -> removeInventory(st, effect.Target)
      [] OTHER -> st

RECURSIVE executeActionEffects(_, _)
executeActionEffects(st, effects) ==
    IF Len(effects) = 0 THEN st
    ELSE executeActionEffects(applyEffect(st, Head(effects)), Tail(effects))

\* fireAction that records every action that fires as performed
fireActionRecordsAll(st, k) ==
    LET action == Doc(st.Scenario).Actions[k]
        s1 == executeActionEffects(st, action.Effects)
        s2 == IF action.Message # "" THEN [s1 EXCEPT !.LastResult = action.Message] ELSE s1
        s3 == [s2 EXCEPT !.PerformedActions = Append(@, action.ID)]
    IN  [s3 EXCEPT !.actionProcessed = TRUE, !.fired = Append(@, k)]

\* the body of "if e.checkActionConditions(...)" for the action with index k
fireAction(st, k) ==
    LET action == Doc(st.Scenario).Actions[k]
        s1 == executeActionEffects(st, action.Effects)
        s2 == IF action.Message # "" THEN [s1 EXCEPT !.LastResult = action.Message] ELSE s1
        s3 == IF action.OneTimeOnly
              THEN [s2 EXCEPT !.PerformedActions = Append(@, action.ID)] ELSE s2
    IN  [s3 EXCEPT !.actionProcessed = TRUE, !.fired = Append(@, k)]

\* processAction without the test that skips a performed one-time action
processActionRefires(st, k, actionType, target, withItem) ==
    LET action == Doc(st.Scenario).Actions[k]
    IN  IF matchesAction(action, actionType, target, withItem)
        THEN IF checkActionConditions(st, action.Conditions) THEN fireAction(st, k)
             ELSE st
        ELSE st

\* processAction that leaves the loop's later actions alone once one has fired
processActionFirstOnly(st, k, actionType, target, withItem) ==
    LET action == Doc(st.Scenario).Actions[k]
    IN  IF st.actionProcessed THEN st
        ELSE IF matchesAction(action, actionType, target, withItem)
        THEN IF action.OneTimeOnly /\ hasPerformedAction(st, action.ID) THEN st
             ELSE IF checkActionConditions(st, action.Conditions) THEN fireAction(st, k)
             ELSE st
        ELSE st

\* one iteration of the loop of processActions, for the action with index k
processAction(st, k, actionType, target, withItem) ==
    LET action == Doc(st.Scenario).Actions[k]
    IN  IF matchesAction(action, actionType, target, withItem)
        THEN IF action.OneTimeOnly /\ hasPerformedAction(st, action.ID) THEN st
             ELSE IF checkActionConditions(st, action.Conditions) THEN fireAction(st, k)
             ELSE st
        ELSE st

RECURSIVE processActionsFrom(_, _, _, _, _)
processActionsFrom(st, k, actionType, target, withItem) ==
    IF k > Len(Doc(st.Scenario).Actions) THEN st
    ELSE processActionsFrom(processAction(st, k, actionType, target, withItem),
                            k + 1, actionType, target, withItem)

\* processActions that tests every action in the state the call is made in
processActionsSnapshot(st, actionType, target, withItem) ==
    LET actions == Doc(st.Scenario).Actions
        eligible == {k \in 1..Len(actions) :
                        /\ matchesAction(actions[k], actionType, target, withItem)
                        /\ ~(actions[k].OneTimeOnly /\ hasPerformedAction(st, actions[k].ID))
                        /\ checkActionConditions(st, actions[k].Conditions)}
        after[k \in 0..Len(actions)] ==
            IF k = 0 THEN [st EXCEPT !.actionProcessed = FALSE]
            ELSE IF k \in eligible THEN fireAction(after[k - 1], k)
            ELSE after[k - 1]
    IN  after[Len(actions)]

\* processActions; its result is the field actionProcessed of the state it yields
processActions(st, actionType, target, withItem) ==
    processActionsFrom([st EXCEPT !.actionProcessed = FALSE], 1, actionType, target, withItem)

(***************************************************************************)
(* engine.go: the built-in handlers                                        *)
(***************************************************************************)
\* lookMatches without the test of the hidden flag
lookMatchesHidden(st, i, target) ==
    Contains(ToLower(Doc(st.Scenario).Items[i].Name), target)

\* the test of the item loop of handleLook, for the item with index i
lookMatches(st, i, target) ==
    Contains(ToLower(Doc(st.Scenario).Items[i].Name), target) /\ ~st.Hidden[i]

handleLook(st, args) ==
    LET s == Doc(st.Scenario)
        room == GetCurrentRoom(st)
        target == Join(args, " ")
        ids == s.Rooms[room].Items
        M == {k \in 1..Len(ids) :
                GetItem(s, ids[k]) # 0 /\ lookMatches(st, GetItem(s, ids[k]), target)}
    IN  IF Len(args) = 0
        THEN IF room = 0
             THEN [st EXCEPT !.err = "room " \o st.CurrentRoom \o " not found"]
             ELSE [st EXCEPT !.LastResult = s.Rooms[room].Description]
        ELSE IF room = 0 THEN Panic(st)
        ELSE IF Contains(ToLower(s.Rooms[room].Description), ToLower(target))
        THEN [st EXCEPT !.LastResult =
                 "You examine the " \o target \o " more closely, but don't notice anything special."]
        ELSE IF M # {}
        THEN [st EXCEPT !.LastResult = s.Items[GetItem(s, ids[Min(M)])].Description]
        ELSE [st EXCEPT !.LastResult = "You don't see that here."]

\* the test of handleTake that also passes over the items the player holds
takeMatchesUnheld(st, i, target) ==
    /\ Contains(ToLower(Doc(st.Scenario).Items[i].Name), target)
    /\ ~st.Hidden[i]
    /\ ~HasItem(st, Doc(st.Scenario).Items[i].ID)

\* the test of the item loop of handleTake, for the item with index i
takeMatches(st, i, target) ==
    Contains(ToLower(Doc(st.Scenario).Items[i].Name), target) /\ ~st.Hidden[i]

\* handleTake that hides the item it takes
handleTakeHides(st, args) ==
    LET s == Doc(st.Scenario)
        room == GetCurrentRoom(st)
        target == Join(args, " ")
        ids == s.Rooms[room].Items
        M == {k \in 1..Len(ids) :
                GetItem(s, ids[k]) # 0 /\ takeMatches(st, GetItem(s, ids[k]), target)}
    IN  IF Len(args) = 0 THEN [st EXCEPT !.LastResult = "Take what?"]
        ELSE IF room = 0 THEN Panic(st)
        ELSE IF M # {}
        THEN LET itemID == ids[Min(M)]
             IN  IF ~HasItem(st, itemID)
                 THEN [st EXCEPT !.Hidden[GetItem(s, itemID)] = TRUE,
                                 !.Inventory = Append(@, itemID), !.taken = itemID,
                                 !.LastResult = "You take the "
                                     \o s.Items[GetItem(s, itemID)].Name \o "."]
                 ELSE [st EXCEPT !.LastResult = "You already have that."]
        ELSE [st EXCEPT !.LastResult = "You don't see that here."]

handleTake(st, args) ==
    LET s == Doc(st.Scenario)
        room == GetCurrentRoom(st)
        target == Join(args, " ")
        ids == s.Rooms[room].Items
        M == {k \in 1..Len(ids) :
                GetItem(s, ids[k]) # 0 /\ takeMatches(st, GetItem(s, ids[k]), target)}
    IN  IF Len(args) = 0 THEN [st EXCEPT !.LastResult = "Take what?"]
        ELSE IF room = 0 THEN Panic(st)
        ELSE IF M # {}
        THEN LET itemID == ids[Min(M)]
             IN  IF ~HasItem(st, itemID)
                 THEN [st EXCEPT !.Inventory = Append(@, itemID), !.taken = itemID,
                                 !.LastResult = "You take the "
                                     \o s.Items[GetItem(s, itemID)].Name \o "."]
                 ELSE [st EXCEPT !.LastResult = "You already have that."]
        ELSE [st EXCEPT !.LastResult = "You don't see that here."]

\* "Handle specific combinations": the matches light the candle
lightCandle(st) ==
    LET s == Doc(st.Scenario)
    IN  [st EXCEPT !.Inventory = Append(@, "lit_candle"),
                   !.LastResult = "You light the candle with the matches. The room is now brightly illuminated!",
                   !.Hidden = [i \in DOMAIN @ |->
                                  IF s.Items[i].RevealedBy = "use_matches" THEN FALSE ELSE @[i]]]

\* handleItemCombination that reports a missing second item before a missing
\* first one
handleItemCombinationSecondFirst(st, item1Name, item2Name) ==
    LET s == Doc(st.Scenario)
        inv == st.Inventory
        F1 == {k \in 1..Len(inv) : GetItem(s, inv[k]) # 0
                 /\ Contains(ToLower(s.Items[GetItem(s, inv[k])].Name), item1Name)}
        F2 == {k \in 1..Len(inv) : GetItem(s, inv[k]) # 0
                 /\ Contains(ToLower(s.Items[GetItem(s, inv[k])].Name), item2Name)}
        room == GetCurrentRoom(st)
        ids == s.Rooms[room].Items
        R2 == {k \in 1..Len(ids) : GetItem(s, ids[k]) # 0
                 /\ Contains(ToLower(s.Items[GetItem(s, ids[k])].Name), item2Name)
                 /\ ~st.Hidden[GetItem(s, ids[k])]}
        item1ID == inv[Min(F1)]
        item2ID == IF F2 # {} THEN inv[Min(F2)] ELSE ids[Min(R2)]
        item1 == s.Items[GetItem(s, item1ID)]
        item2 == s.Items[GetItem(s, item2ID)]
    IN  IF F2 = {} /\ room = 0 THEN Panic(st)
        ELSE IF F2 = {} /\ R2 = {}
        THEN [st EXCEPT !.LastResult = "You don't see " \o item2Name \o " here."]
        ELSE IF F1 = {}
        THEN [st EXCEPT !.LastResult = "You don't have " \o item1Name \o "."]
        ELSE IF item1ID = "matches" /\ item2ID = "candle" THEN lightCandle(st)
        ELSE IF item1.UseWith = item2ID
        THEN [st EXCEPT !.LastResult =
                 "You use the " \o item1.Name \o " with the " \o item2.Name \o "."]
        ELSE [st EXCEPT !.LastResult =
                 "You can't use the " \o item1.Name \o " with the " \o item2.Name \o "."]

handleItemCombination(st, item1Name, item2Name) ==
    LET s == Doc(st.Scenario)
        inv == st.Inventory
        F1 == {k \in 1..Len(inv) : GetItem(s, inv[k]) # 0
                 /\ Contains(ToLower(s.Items[GetItem(s, inv[k])].Name), item1Name)}
        F2 == {k \in 1..Len(inv) : GetItem(s, inv[k]) # 0
                 /\ Contains(ToLower(s.Items[GetItem(s, inv[k])].Name), item2Name)}
        room == GetCurrentRoom(st)
        ids == s.Rooms[room].Items
        R2 == {k \in 1..Len(ids) : GetItem(s, ids[k]) # 0
                 /\ Contains(ToLower(s.Items[GetItem(s, ids[k])].Name), item2Name)
                 /\ ~st.Hidden[GetItem(s, ids[k])]}
        item1ID == inv[Min(F1)]
        item2ID == IF F2 # {} THEN inv[Min(F2)] ELSE ids[Min(R2)]
        item1 == s.Items[GetItem(s, item1ID)]
        item2 == s.Items[GetItem(s, item2ID)]
    IN  IF F2 = {} /\ room = 0 THEN Panic(st)
        ELSE IF F1 = {}
        THEN [st EXCEPT !.LastResult = "You don't have " \o item1Name \o "."]
        ELSE IF F2 = {} /\ R2 = {}
        THEN [st EXCEPT !.LastResult = "You don't see " \o item2Name \o " here."]
        ELSE IF item1ID = "matches" /\ item2ID = "candle" THEN lightCandle(st)
        ELSE IF item1.UseWith = item2ID
        THEN [st EXCEPT !.LastResult =
                 "You use the " \o item1.Name \o " with the " \o item2.Name \o "."]
        ELSE [st EXCEPT !.LastResult =
                 "You can't use the " \o item1.Name \o " with the " \o item2.Name \o "."]

\* the split that tries " on " before " with "
splitUseOnFirst(target) ==
    LET w == Split(target, " on ")
    IN  IF Len(w) = 1 THEN Split(target, " with ") ELSE w

\* the split of "use X with Y" / "use X on Y", as handleUse and ProcessCommand do it
splitUse(target) ==
    LET w == Split(target, " with ")
    IN  IF Len(w) = 1 THEN Split(target, " on ") ELSE w

handleUse(st, args) ==
    LET s == Doc(st.Scenario)
        target == Join(args, " ")
        parts == splitUse(target)
        inv == st.Inventory
        U == {k \in 1..Len(inv) : GetItem(s, inv[k]) # 0
                /\ Contains(ToLower(s.Items[GetItem(s, inv[k])].Name), target)
                /\ s.Items[GetItem(s, inv[k])].Usable}
    IN  IF Len(args) = 0 THEN [st EXCEPT !.LastResult = "Use what?"]
        ELSE IF (Contains(target, " with ") \/ Contains(target, " on ")) /\ Len(parts) = 2
        THEN handleItemCombination(st, TrimSpace(parts[1]), TrimSpace(parts[2]))
        ELSE IF U # {}
        THEN [st EXCEPT !.LastResult =
                 "You use the " \o s.Items[GetItem(s, inv[Min(U)])].Name \o "."]
        ELSE [st EXCEPT !.LastResult = "You don't have that item or can't use it."]

\* handleMove without the test of the locked flag
wayIsLockedNever(st, exit) == FALSE

\* wayIsLocked without the look into the inventory
wayIsLockedKeyless(st, exit) ==
    st.Locked[exit] /\ Doc(st.Scenario).Rooms[exit].UnlockKey = ""

\* the test "if exitRoom.Locked { if exitRoom.UnlockKey == "" || !HasItem(...)" of handleMove
wayIsLocked(st, exit) ==
    st.Locked[exit]
    /\ (Doc(st.Scenario).Rooms[exit].UnlockKey = ""
        \/ ~HasItem(st, Doc(st.Scenario).Rooms[exit].UnlockKey))

\* the exit loop ends at the first exit that does not resolve
exitsTriedUntilMissing(s, exits) ==
    {k \in 1..Len(exits) : \A j \in 1..k : GetRoom(s, exits[j]) # 0}

\* the exits the loop of handleMove does not skip: those GetRoom finds
exitsTried(s, exits) == {k \in 1..Len(exits) : GetRoom(s, exits[k]) # 0}

\* handleMove that clears the locked flag of the room it enters
handleMoveUnlocks(st, args) ==
    LET s == Doc(st.Scenario)
        direction == Join(args, " ")
        room == GetCurrentRoom(st)
        exits == s.Rooms[room].Exits
        M == {k \in exitsTried(s, exits) :
                 (Contains(ToLower(s.Rooms[GetRoom(s, exits[k])].Name), direction)
                    \/ Contains(ToLower(exits[k]), direction))}
        exitID == exits[Min(M)]
    IN  IF Len(args) = 0 THEN [st EXCEPT !.LastResult = "Go where?"]
        ELSE IF room = 0 THEN Panic(st)
        ELSE IF M # {}
        THEN IF wayIsLocked(st, GetRoom(s, exitID))
             THEN [st EXCEPT !.LastResult = "That way is locked."]
             ELSE [st EXCEPT !.Locked[GetRoom(s, exitID)] = FALSE,
                             !.CurrentRoom = exitID,
                             !.LastResult = "You move to "
                                 \o s.Rooms[GetRoom(s, exitID)].Name \o "."]
        ELSE [st EXCEPT !.LastResult = "You can't go that way."]

\* handleMove that looks for the direction among all rooms of the document
handleMoveAnyRoom(st, args) ==
    LET s == Doc(st.Scenario)
        direction == Join(args, " ")
        room == GetCurrentRoom(st)
        exits == [r \in 1..Len(s.Rooms) |-> s.Rooms[r].ID]
        M == {k \in exitsTried(s, exits) :
                 (Contains(ToLower(s.Rooms[GetRoom(s, exits[k])].Name), direction)
                    \/ Contains(ToLower(exits[k]), direction))}
        exitID == exits[Min(M)]
    IN  IF Len(args) = 0 THEN [st EXCEPT !.LastResult = "Go where?"]
        ELSE IF room = 0 THEN Panic(st)
        ELSE IF M # {}
        THEN IF wayIsLocked(st, GetRoom(s, exitID))
             THEN [st EXCEPT !.LastResult = "That way is locked."]
             ELSE [st EXCEPT !.CurrentRoom = exitID,
                             !.LastResult = "You move to "
                                 \o s.Rooms[GetRoom(s, exitID)].Name \o "."]
        ELSE [st EXCEPT !.LastResult = "You can't go that way."]

handleMove(st, args) ==
    LET s == Doc(st.Scenario)
        direction == Join(args, " ")
        room == GetCurrentRoom(st)
        exits == s.Rooms[room].Exits
        M == {k \in exitsTried(s, exits) :
                 (Contains(ToLower(s.Rooms[GetRoom(s, exits[k])].Name), direction)
                    \/ Contains(ToLower(exits[k]), direction))}
        exitID == exits[Min(M)]
    IN  IF Len(args) = 0 THEN [st EXCEPT !.LastResult = "Go where?"]
        ELSE IF room = 0 THEN Panic(st)
        ELSE IF M # {}
        THEN IF wayIsLocked(st, GetRoom(s, exitID))
             THEN [st EXCEPT !.LastResult = "That way is locked."]
             ELSE [st EXCEPT !.CurrentRoom = exitID,
                             !.LastResult = "You move to "
                                 \o s.Rooms[GetRoom(s, exitID)].Name \o "."]
        ELSE [st EXCEPT !.LastResult = "You can't go that way."]

\* the names of the inventory items that resolve, in order
RECURSIVE itemNames(_, _)
itemNames(s, inv) ==
    IF Len(inv) = 0 THEN << >>
    ELSE (IF GetItem(s, Head(inv)) # 0 THEN << s.Items[GetItem(s, Head(inv))].Name >> ELSE << >>)
         \o itemNames(s, Tail(inv))

handleInventory(st) ==
    IF Len(st.Inventory) = 0 THEN [st EXCEPT !.LastResult = "Your inventory is empty."]
    ELSE [st EXCEPT !.LastResult =
             "You have: " \o Join(itemNames(Doc(st.Scenario), st.Inventory), ", ")]

\* checkWinCondition with > in place of >=
checkWinConditionStrict(st) ==
    IF Len(st.SolvedPuzzles) > Len(Doc(st.Scenario).Puzzles)
    THEN [st EXCEPT !.GameWon = TRUE] ELSE st

\* checkWinCondition that counts from 0: the last puzzle is not needed
checkWinConditionEarly(st) ==
    IF Len(st.SolvedPuzzles) >= Len(Doc(st.Scenario).Puzzles) - 1
    THEN [st EXCEPT !.GameWon = TRUE] ELSE st

\* "Check win condition" of handleSolve
checkWinCondition(st) ==
    IF Len(st.SolvedPuzzles) >= Len(Doc(st.Scenario).Puzzles)
    THEN [st EXCEPT !.GameWon = TRUE] ELSE st

\* handleSolve that goes on to the next puzzle of the room when one does
\* not accept the answer
handleSolveAnyPuzzle(st, args) ==
    LET s == Doc(st.Scenario)
        answer == Join(args, " ")
        room == GetCurrentRoom(st)
        ids == s.Rooms[room].Puzzles
        C == {k \in 1..Len(ids) : GetPuzzle(s, ids[k]) # 0 /\ ~IsPuzzleSolved(st, ids[k])}
        A == {k \in C :
                /\ \A j \in 1..Len(s.Puzzles[GetPuzzle(s, ids[k])].RequiredItems) :
                       HasItem(st, s.Puzzles[GetPuzzle(s, ids[k])].RequiredItems[j])
                /\ EqualFold(answer, s.Puzzles[GetPuzzle(s, ids[k])].Solution)}
    IN  IF Len(args) = 0 THEN [st EXCEPT !.LastResult = "Solve what?"]
        ELSE IF room = 0 THEN Panic(st)
        ELSE IF C = {} THEN [st EXCEPT !.LastResult = "There's no puzzle here to solve."]
        ELSE IF A = {} THEN [st EXCEPT !.LastResult = "That's not correct."]
        ELSE checkWinCondition(
                 [st EXCEPT !.SolvedPuzzles = Append(@, ids[Min(A)]),
                            !.LastResult = "Correct! "
                                \o s.Puzzles[GetPuzzle(s, ids[Min(A)])].Reward])

\* handleSolve that counts a wrong answer for the puzzle
handleSolveCountsFailures(st, args) ==
    LET s == Doc(st.Scenario)
        answer == Join(args, " ")
        room == GetCurrentRoom(st)
        ids == s.Rooms[room].Puzzles
        \* the puzzles the loop does not skip
        C == {k \in 1..Len(ids) : GetPuzzle(s, ids[k]) # 0 /\ ~IsPuzzleSolved(st, ids[k])}
        puzzleID == ids[Min(C)]
        puzzle == s.Puzzles[GetPuzzle(s, puzzleID)]
        hasAllItems == \A j \in 1..Len(puzzle.RequiredItems) : HasItem(st, puzzle.RequiredItems[j])
    IN  IF Len(args) = 0 THEN [st EXCEPT !.LastResult = "Solve what?"]
        ELSE IF room = 0 THEN Panic(st)
        ELSE IF C = {} THEN [st EXCEPT !.LastResult = "There's no puzzle here to solve."]
        ELSE IF ~hasAllItems
        THEN [st EXCEPT !.LastResult = "You don't have everything needed to solve this puzzle."]
        ELSE IF EqualFold(answer, puzzle.Solution)
        THEN checkWinCondition([st EXCEPT !.SolvedPuzzles = Append(@, puzzleID),
                                          !.LastResult = "Correct! " \o puzzle.Reward])
        ELSE [st EXCEPT !.FailedAttempts =
                            [c \in DOMAIN @ \cup {puzzleID} |->
                                IF c # puzzleID THEN @[c]
                                ELSE IF c \in DOMAIN @ THEN @[c] + 1 ELSE 1],
                        !.LastResult = "That's not correct."]

handleSolve(st, args) ==
    LET s == Doc(st.Scenario)
        answer == Join(args, " ")
        room == GetCurrentRoom(st)
        ids == s.Rooms[room].Puzzles
        \* the puzzles the loop does not skip
        C == {k \in 1..Len(ids) : GetPuzzle(s, ids[k]) # 0 /\ ~IsPuzzleSolved(st, ids[k])}
        puzzleID == ids[Min(C)]
        puzzle == s.Puzzles[GetPuzzle(s, puzzleID)]
        hasAllItems == \A j \in 1..Len(puzzle.RequiredItems) : HasItem(st, puzzle.RequiredItems[j])
    IN  IF Len(args) = 0 THEN [st EXCEPT !.LastResult = "Solve what?"]
        ELSE IF room = 0 THEN Panic(st)
        ELSE IF C = {} THEN [st EXCEPT !.LastResult = "There's no puzzle here to solve."]
        ELSE IF ~hasAllItems
        THEN [st EXCEPT !.LastResult = "You don't have everything needed to solve this puzzle."]
        ELSE IF EqualFold(answer, puzzle.Solution)
        THEN checkWinCondition([st EXCEPT !.SolvedPuzzles = Append(@, puzzleID),
                                          !.LastResult = "Correct! " \o puzzle.Reward])
        ELSE [st EXCEPT !.LastResult = "That's not correct."]

handleHint(st, args) ==
    LET s == Doc(st.Scenario)
        room == GetCurrentRoom(st)
    IN  IF room = 0 THEN Panic(st)
        ELSE IF s.Rooms[room].ID \in DOMAIN s.Hints
        THEN [st EXCEPT !.LastResult = s.Hints[s.Rooms[room].ID]]
        ELSE [st EXCEPT !.LastResult = "No hints available for this location."]

(***************************************************************************)
(* engine.go: ProcessCommand                                               *)
(***************************************************************************)
\* the verb ProcessCommand switches on; "" for a command without fields
Verb(command) ==
    LET parts == Fields(ToLower(command))
    IN  IF Len(parts) = 0 THEN "" ELSE parts[1]

LookVerbs == {"look", "examine"}
\* the case "take", "get" without "pick"
TakeVerbsNoPick == {"take", "get"}
TakeVerbs == {"take", "get", "pick"}
MoveVerbs == {"go", "move", "walk"}
InventoryVerbs == {"inventory", "inv", "i"}

\* the case "look", "examine" with the handler run after the actions in any case
commandLookAlways(st, args) ==
    handleLook(processActions(st, "examine", Join(args, " "), ""), args)

\* case "look", "examine"
commandLook(st, args) ==
    LET s1 == processActions(st, "examine", Join(args, " "), "")
    IN  IF ~s1.actionProcessed THEN handleLook(s1, args) ELSE s1

\* case "take", "get", "pick"
commandTake(st, args) ==
    LET s1 == handleTake(st, args)
    IN  IF s1.err # "" THEN s1 ELSE processActions(s1, "take", Join(args, " "), "")

\* case "use"
commandUse(st, args) ==
    LET target == Join(args, " ")
        s1 == handleUse(st, args)
        parts == splitUse(target)
    IN  IF s1.err # "" THEN s1
        ELSE IF Contains(target, " with ") \/ Contains(target, " on ")
        THEN IF Len(parts) = 2
             THEN processActions(s1, "use_with", TrimSpace(parts[1]), TrimSpace(parts[2]))
             ELSE s1
        ELSE processActions(s1, "use", target, "")

\* the default case that leaves the result of the command before it
commandUnknownSilent(st) == st

\* default: a verb no case names
commandUnknown(st) == [st EXCEPT !.LastResult = "I don't understand that command."]

\* beginCommand that also clears the win flag for the new turn
beginCommandClearsWin(st, command) ==
    [st EXCEPT !.Moves = @ + 1, !.CommandAttempts = @ + 1, !.LastAction = command,
               !.GameWon = FALSE]

\* the three assignments ProcessCommand starts with
beginCommand(st, command) ==
    [st EXCEPT !.Moves = @ + 1, !.CommandAttempts = @ + 1, !.LastAction = command]

\* ProcessCommand that also leaves the error of an empty command as the result
ProcessCommandSaysEmpty(st, command) ==
    LET s0 == [beginCommand(st, command) EXCEPT
                  !.err = "", !.actionProcessed = FALSE, !.fired = << >>, !.taken = ""]
        parts == Fields(ToLower(command))
        verb == parts[1]
        args == Tail(parts)
    IN  IF Len(parts) = 0 THEN [s0 EXCEPT !.err = "empty command", !.LastResult = "empty command"]
        ELSE IF verb \in LookVerbs THEN commandLook(s0, args)
        ELSE IF verb \in TakeVerbs THEN commandTake(s0, args)
        ELSE IF verb = "use" THEN commandUse(s0, args)
        ELSE IF verb \in MoveVerbs THEN handleMove(s0, args)
        ELSE IF verb \in InventoryVerbs THEN handleInventory(s0)
        ELSE IF verb = "solve" THEN handleSolve(s0, args)
        ELSE IF verb = "hint" THEN handleHint(s0, args)
        ELSE commandUnknown(s0)

ProcessCommand(st, command) ==
    LET s0 == [beginCommand(st, command) EXCEPT
                  !.err = "", !.actionProcessed = FALSE, !.fired = << >>, !.taken = ""]
        parts == Fields(ToLower(command))
        verb == parts[1]
        args == Tail(parts)
    IN  IF Len(parts) = 0 THEN [s0 EXCEPT !.err = "empty command"]
        ELSE IF verb \in LookVerbs THEN commandLook(s0, args)
        ELSE IF verb \in TakeVerbs THEN commandTake(s0, args)
        ELSE IF verb = "use" THEN commandUse(s0, args)
        ELSE IF verb \in MoveVerbs THEN handleMove(s0, args)
        ELSE IF verb \in InventoryVerbs THEN handleInventory(s0)
        ELSE IF verb = "solve" THEN handleSolve(s0, args)
        ELSE IF verb = "hint" THEN handleHint(s0, args)
        ELSE commandUnknown(s0)

(***************************************************************************)
(* The engine without actions (the second engine file of package game).    *)
(* Its handleTake, handleMove, handleInventory, handleSolve and handleHint *)
(* are, statement for statement, those of the engine above; its            *)
(* ProcessCommand, handleLook and handleUse differ and are given here.  It *)
(* has no CommandAttempts, PerformedActions or FailedAttempts.             *)
(***************************************************************************)
simpleHandleLook(st, args) ==
    LET s == Doc(st.Scenario)
        room == GetCurrentRoom(st)
        target == Join(args, " ")
        ids == s.Rooms[room].Items
        M == {k \in 1..Len(ids) :
                GetItem(s, ids[k]) # 0 /\ lookMatches(st, GetItem(s, ids[k]), target)}
    IN  IF Len(args) = 0
        THEN IF room = 0
             THEN [st EXCEPT !.err = "room " \o st.CurrentRoom \o " not found"]
             ELSE [st EXCEPT !.LastResult =
                      "You are in " \o s.Rooms[room].Name \o ". " \o s.Rooms[room].Description]
        ELSE IF room = 0 THEN Panic(st)
        ELSE IF M # {}
        THEN [st EXCEPT !.LastResult = s.Items[GetItem(s, ids[Min(M)])].Description]
        ELSE [st EXCEPT !.LastResult = "You don't see that here."]

\* the loop "for _, otherItemID := range Items" works on copies of the items:
\* its assignment to Hidden is lost, its append to DiscoveredItems is not
simpleHandleUse(st, args) ==
    LET s == Doc(st.Scenario)
        target == Join(args, " ")
        inv == st.Inventory
        U == {k \in 1..Len(inv) : GetItem(s, inv[k]) # 0
                /\ Contains(ToLower(s.Items[GetItem(s, inv[k])].Name), target)
                /\ s.Items[GetItem(s, inv[k])].Usable}
        item == s.Items[GetItem(s, inv[Min(U)])]
        revealed == SelectSeq([i \in 1..Len(s.Items) |-> i],
                              LAMBDA i : s.Items[i].ID = item.RevealedBy /\ st.Hidden[i])
    IN  IF Len(args) = 0 THEN [st EXCEPT !.LastResult = "Use what?"]
        ELSE IF U # {}
        THEN [st EXCEPT !.DiscoveredItems =
                            IF item.RevealedBy # ""
                            THEN @ \o [k \in 1..Len(revealed) |-> s.Items[revealed[k]].ID]
                            ELSE @,
                        !.LastResult = "You use the " \o item.Name \o "."]
        ELSE [st EXCEPT !.LastResult = "You don't have that item or can't use it."]

simpleProcessCommand(st, command) ==
    LET s0 == [st EXCEPT !.Moves = @ + 1, !.LastAction = command, !.err = ""]
        parts == Fields(ToLower(command))
        verb == parts[1]
        args == Tail(parts)
    IN  IF Len(parts) = 0 THEN [s0 EXCEPT !.err = "empty command"]
        ELSE IF verb \in LookVerbs THEN simpleHandleLook(s0, args)
        ELSE IF verb \in TakeVerbs THEN handleTake(s0, args)
        ELSE IF verb = "use" THEN simpleHandleUse(s0, args)
        ELSE IF verb \in MoveVerbs THEN handleMove(s0, args)
        ELSE IF verb \in InventoryVerbs THEN handleInventory(s0)
        ELSE IF verb = "solve" THEN handleSolve(s0, args)
        ELSE IF verb = "hint" THEN handleHint(s0, args)
        ELSE commandUnknown(s0)

(***************************************************************************)
(* engine.go: progressive hints                                            *)
(***************************************************************************)
\* e.state.FailedAttempts[context]: a missing key reads as 0
failedAttempts(st, context) ==
    IF context \in DOMAIN st.FailedAttempts THEN st.FailedAttempts[context] ELSE 0

\* triggerMet with > in place of >= for commands_tried
triggerMetStrict(st, minutes, hint, trigger) ==
    CASE trigger.Type = "failed_attempts" -> failedAttempts(st, hint.Context) >= trigger.Threshold
      [] trigger.Type = "time_spent" -> minutes >= trigger.Threshold
      [] trigger.Type = "commands_tried" -> st.CommandAttempts > trigger.Threshold
      [] OTHER -> FALSE

\* one case of the trigger switch of shouldShowHint
triggerMet(st, minutes, hint, trigger) ==
    CASE trigger.Type = "failed_attempts" -> failedAttempts(st, hint.Context) >= trigger.Threshold
      [] trigger.Type = "time_spent" -> minutes >= trigger.Threshold
      [] trigger.Type = "commands_tried" -> st.CommandAttempts >= trigger.Threshold
      [] OTHER -> FALSE

\* contextMatch that takes a puzzle of the room whether solved or not
contextMatchSolved(st, hint) ==
    LET s == Doc(st.Scenario)
        ids == s.Rooms[GetCurrentRoom(st)].Puzzles
    IN  \/ hint.Context = st.CurrentRoom
        \/ \E k \in 1..Len(ids) : hint.Context = ids[k]

\* the context test of shouldShowHint; it dereferences the room unless the context is the room id
contextMatch(st, hint) ==
    LET s == Doc(st.Scenario)
        ids == s.Rooms[GetCurrentRoom(st)].Puzzles
    IN  \/ hint.Context = st.CurrentRoom
        \/ \E k \in 1..Len(ids) : hint.Context = ids[k] /\ ~IsPuzzleSolved(st, ids[k])

shouldShowHint(st, minutes, hint) ==
    /\ contextMatch(st, hint)
    /\ \E k \in 1..Len(hint.Triggers) : triggerMet(st, minutes, hint, hint.Triggers[k])

RECURSIVE hintsFrom(_, _, _)
hintsFrom(st, minutes, hints) ==
    IF Len(hints) = 0 THEN << >>
    ELSE (IF shouldShowHint(st, minutes, Head(hints)) THEN << Head(hints).HintText >> ELSE << >>)
         \o hintsFrom(st, minutes, Tail(hints))

GetProgressiveHints(st, minutes) ==
    hintsFrom(st, minutes, Doc(st.Scenario).ProgressiveHints)

(***************************************************************************)
(* The console lines fed to ProcessCommand                                 *)
(***************************************************************************)
AtticCommands ==
    { "", "  ", "dance", "look", "examine desk", "look rafters", "look coin", "LOOK  Candle",
      "look note", "take matches", "get coin", "take silver", "go cellar", "walk vault",
      "go attic", "use matches with candle", "use matches on coin", "use coin",
      "use matches with candle on desk",
      "inventory", "solve echo", "solve seven", "hint" }

\* the lines of a session on the document with the actions EffectActions
EffectCommands ==
    { "", "dance", "look", "look hatch", "look rafters", "examine desk", "get coin",
      "pick matches", "use coin", "use matches with candle", "use coin with candle",
      "use coin with matches", "walk vault", "go cellar",
      "move attic", "inv", "i", "solve echo", "hint" }

FallbackCommands ==
    { "examine desk", "examine bookshelf",
      "take letter", "take compass", "take journal", "take key",
      "use letter_opener with painting", "use compass with clock",
      "solve move painting", "solve twelve", "solve use key and compass",
      "go hidden", "go victory", "go study" }

\* the verb of every console line of the model
verbOf ==
    [command \in AtticCommands \cup FallbackCommands \cup EffectCommands |-> Verb(command)]

Commands(p) ==
    IF p = "fallback" THEN FallbackCommands
    ELSE IF p = "attic_effects" THEN EffectCommands
    ELSE AtticCommands

(***************************************************************************)
(* Specification                                                           *)
(***************************************************************************)
\* the state after NewEngine(p): loadOrCreateScenario has returned
Start(p) ==
    /\ Scenario = p
    /\ Hidden = NewEngine(p).Hidden
    /\ Locked = NewEngine(p).Locked
    /\ CurrentRoom = NewEngine(p).CurrentRoom
    /\ Inventory = NewEngine(p).Inventory
    /\ SolvedPuzzles = NewEngine(p).SolvedPuzzles
    /\ DiscoveredItems = NewEngine(p).DiscoveredItems
    /\ PerformedActions = NewEngine(p).PerformedActions
    /\ FailedAttempts = NewEngine(p).FailedAttempts
    /\ CommandAttempts = NewEngine(p).CommandAttempts
    /\ Moves = NewEngine(p).Moves
    /\ GameWon = NewEngine(p).GameWon
    /\ LastAction = NewEngine(p).LastAction
    /\ LastResult = NewEngine(p).LastResult
    /\ err = NewEngine(p).err
    /\ actionProcessed = NewEngine(p).actionProcessed
    /\ fired = NewEngine(p).fired
    /\ taken = NewEngine(p).taken
    /\ Minutes = 0
    /\ saveFile = << >>
    /\ scenario = << >>

\* gameLoop has not read a line: the engine is driven line by line
AtPrompt ==
    /\ Main = "part_000"
    /\ client = FALSE
    /\ pc = "loop"
    /\ input = ""
    /\ log = << >>

Init == Start("attic") /\ AtPrompt

InitFallback == Start("fallback") /\ AtPrompt

\* the state becomes s, the state e.ProcessCommand(command) leaves
Run(s) ==
    /\ Hidden' = s.Hidden
    /\ Locked' = s.Locked
    /\ CurrentRoom' = s.CurrentRoom
    /\ Inventory' = s.Inventory
    /\ SolvedPuzzles' = s.SolvedPuzzles
    /\ DiscoveredItems' = s.DiscoveredItems
    /\ PerformedActions' = s.PerformedActions
    /\ FailedAttempts' = s.FailedAttempts
    /\ CommandAttempts' = s.CommandAttempts
    /\ Moves' = s.Moves
    /\ GameWon' = s.GameWon
    /\ LastAction' = s.LastAction
    /\ LastResult' = s.LastResult
    /\ err' = s.err
    /\ actionProcessed' = s.actionProcessed
    /\ fired' = s.fired
    /\ taken' = s.taken
    /\ UNCHANGED << Scenario, Minutes, saveFile, scenario >>

\* what a command can change of the game: all of the state but the two
\* counters, the last command and its result
Game(st) ==
    << st.Hidden, st.Locked, st.CurrentRoom, st.Inventory, st.SolvedPuzzles,
       st.PerformedActions, st.GameWon >>

\* The lines a session feeds to the engine.  A session on a generated
\* document is any MaxCommands lines.  In the built-in scenario no command
\* undoes anything (no effect hides, removes or locks), so a session there
\* is every sequence of lines each of which changes the game: a line that
\* changes nothing of it leaves the game where it was.
Open == Scenario = "fallback" \/ CommandAttempts < MaxCommands

\* s is the state the line leaves
Given(s) == Scenario = "fallback" => Game(s) # Game(State)

\* a command line of the verb class V is processed
Turn(V) ==
    \E command \in Commands(Scenario) :
        /\ verbOf[command] \in V
        /\ Open
        /\ \E s \in {ProcessCommand(State, command)} :
              /\ Given(s)
              /\ Run(s)
              /\ UNCHANGED console

\* the verbs ProcessCommand has a case for; every other verb, the empty
\* line apart, falls to its default case
KnownVerbs ==
    LookVerbs \cup TakeVerbs \cup MoveVerbs \cup InventoryVerbs \cup {"use", "solve", "hint"}

OtherVerbs == {verbOf[command] : command \in DOMAIN verbOf} \ (KnownVerbs \cup {""})

Look == Turn(LookVerbs)
Take == Turn(TakeVerbs)
Use == Turn({"use"})
Move == Turn(MoveVerbs)
ShowInventory == Turn(InventoryVerbs)
Solve == Turn({"solve"})
Hint == Turn({"hint"})
EmptyCommand == Turn({""})
UnknownCommand == Turn(OtherVerbs)

\* a minute of the session passes
Tick ==
    /\ Minutes < MaxMinutes
    /\ Minutes' = Minutes + 1
    /\ UNCHANGED << Scenario, Hidden, Locked, CurrentRoom, Inventory, SolvedPuzzles,
                    DiscoveredItems, PerformedActions, FailedAttempts, CommandAttempts,
                    Moves, GameWon, LastAction, LastResult, err, actionProcessed, fired,
                    taken, Main, client, pc, input, log, saveFile, scenario >>

Next ==
    \/ Look
    \/ Take
    \/ Use
    \/ Move
    \/ ShowInventory
    \/ Solve
    \/ Hint
    \/ EmptyCommand
    \/ UnknownCommand
    \/ Tick

Spec == Init /\ [][Next]_vars

NextFallback == Look \/ Take \/ Use \/ Move \/ Solve

SpecFallback == InitFallback /\ [][NextFallback]_vars

\* a session on the document with the actions EffectActions
InitEffects == Start("attic_effects") /\ AtPrompt

SpecEffects == InitEffects /\ [][Next]_vars

\* a session on the attic document without its actions
InitPlain == Start("attic_plain") /\ AtPrompt

SpecPlain == InitPlain /\ [][Next]_vars

(***************************************************************************)
(* main.go: gameLoop, and the narration it asks the client for             *)
(***************************************************************************)
\* the variables of the engine
engine == << Scenario, Hidden, Locked, CurrentRoom, Inventory, SolvedPuzzles,
             DiscoveredItems, PerformedActions, FailedAttempts, CommandAttempts,
             Moves, GameWon, LastAction, LastResult, err, actionProcessed, fired, taken >>

\* the files with a gameLoop: part_000 prints the result and then the
\* narration, main.go prints the narration or else the result
MainFiles == {"part_000", "main.go"}

\* one entry of log: a call made or a line printed, with its text
Event(ev, text) == [ev |-> ev, text |-> text]

\* the lines typed at the prompt
ConsoleLines ==
    { "", "  ", "quit", " EXIT", "Help", "stats", " look ", "examine desk", "get coin",
      "dance", "hint", "solve echo", "solve seven" }

\* the responses of Client.fallbackNarration, without the result they follow
fillers ==
    << "The air feels thick with mystery.", "Something important must be nearby.",
       "You sense you're getting closer to the truth.", "The silence is almost deafening.",
       "Every detail might be crucial." >>

\* Client.fallbackNarration(ctx)
fallbackNarration(st) ==
    st.LastResult \o " " \o fillers[((Len(st.LastAction) + st.Moves) % Len(fillers)) + 1]

\* resp.Choices[0].Message.Content of a completion call that returned no error
Completions == { "", "A cold draught stirs the dust." }

\* what Client.GenerateNarration(ctx) can return for a client that is not
\* nil: the fallback narration when the completion call returns an error,
\* the content of the completion otherwise
GenerateNarration(st) == {fallbackNarration(st)} \cup Completions

\* fmt's %v of a []string
FormatList(seq) == "[" \o Join(seq, " ") \o "]"

\* hintsContext of GenerateNarration
hintsContext(hints) ==
    IF Len(hints) > 0
    THEN "\n\nProgressive Hints Available (subtly weave these into your narration):\n"
         \o FormatList(hints)
    ELSE ""

\* ctx.ProgressiveHints: generateNarration of part_000 sets it, that of
\* main.go leaves it nil
contextHints(st, minutes, main) ==
    IF main = "part_000" THEN GetProgressiveHints(st, minutes) ELSE << >>

\* the loop over the items of the room with the test of the hidden flag left out
roomItemsListed(st) ==
    LET s == Doc(st.Scenario)
        ids == s.Rooms[GetCurrentRoom(st)].Items
    IN  itemNames(s, ids)

\* the prompt that also lists the items of the room, hidden or not
narrationPromptListsItems(st, hints) ==
    LET document == Doc(st.Scenario)
        room == document.Rooms[GetCurrentRoom(st)]
    IN  "Theme: " \o document.Theme
        \o "\nSetting: " \o document.Setting \o "  "
        \o "\nCurrent Room: " \o room.Name \o " - " \o room.Description
        \o "\nCurrent Situation: " \o st.LastResult
        \o "\n\nPlayer's Last Action: " \o st.LastAction
        \o "\nInventory: " \o FormatList(st.Inventory)
        \o "\nItems: " \o FormatList(roomItemsListed(st))
        \o "\nProgress: " \o ToString(Len(st.SolvedPuzzles)) \o "/"
        \o ToString(Len(document.Puzzles)) \o " puzzles solved"
        \o "\nCommands Tried: " \o ToString(st.CommandAttempts) \o hintsContext(hints)

\* the prompt of GenerateNarration: the text between the fixed opening and
\* the fixed closing paragraph of its format, with the values put in
narrationPrompt(st, hints) ==
    LET document == Doc(st.Scenario)
        room == document.Rooms[GetCurrentRoom(st)]
    IN  "Theme: " \o document.Theme
        \o "\nSetting: " \o document.Setting \o "  "
        \o "\nCurrent Room: " \o room.Name \o " - " \o room.Description
        \o "\nCurrent Situation: " \o st.LastResult
        \o "\n\nPlayer's Last Action: " \o st.LastAction
        \o "\nInventory: " \o FormatList(st.Inventory)
        \o "\nProgress: " \o ToString(Len(st.SolvedPuzzles)) \o "/"
        \o ToString(Len(document.Puzzles)) \o " puzzles solved"
        \o "\nCommands Tried: " \o ToString(st.CommandAttempts) \o hintsContext(hints)

\* the position after a line: a break for help in place of the continue
afterLineHelpBreaks(line) ==
    IF line = "" THEN "loop"
    ELSE IF ToLower(line) = "quit" \/ ToLower(line) = "exit" THEN "exit"
    ELSE IF ToLower(line) = "help" THEN "exit"
    ELSE IF ToLower(line) = "stats" THEN "loop"
    ELSE "command"

\* the position of gameLoop after it read and trimmed a line
afterLine(line) ==
    IF line = "" THEN "loop"
    ELSE IF ToLower(line) = "quit" \/ ToLower(line) = "exit" THEN "exit"
    ELSE IF ToLower(line) = "help" THEN "loop"
    ELSE IF ToLower(line) = "stats" THEN "loop"
    ELSE "command"

\* what gameLoop prints for a line it does not hand to the engine
printedForLine(line) ==
    IF line = "" THEN << >>
    ELSE IF ToLower(line) = "quit" \/ ToLower(line) = "exit"
    THEN << Event("print_thanks", "Thanks for playing!") >>
    ELSE IF ToLower(line) = "help" THEN << Event("print_help", "") >>
    ELSE IF ToLower(line) = "stats" THEN << Event("print_stats", "") >>
    ELSE << >>

\* "if engine.IsGameWon()" at the head of the loop: congratulations and break
Won ==
    /\ pc = "loop"
    /\ IsGameWon(State)
    /\ pc' = "exit"
    /\ log' = << Event("print_won", "Congratulations! You've escaped!"),
                 Event("print_stats", "") >>
    /\ UNCHANGED << engine, Minutes, Main, client, input, saveFile, scenario >>

\* a line is read and trimmed; the blank line, quit, exit, help and stats
\* are the console's own, every other line goes to the engine
ReadLine ==
    /\ pc = "loop"
    /\ ~IsGameWon(State)
    /\ \E line \in ConsoleLines :
          /\ input' = TrimSpace(line)
          /\ pc' = afterLine(input')
          /\ pc' = "command" => CommandAttempts < MaxCommands
          /\ log' = printedForLine(input')
    /\ UNCHANGED << engine, Minutes, Main, client, saveFile, scenario >>

\* err := engine.ProcessCommand(input); a handler that dereferences a nil
\* room ends the program, an error is printed and the loop continues
Process ==
    /\ pc = "command"
    /\ \E s \in {ProcessCommand(State, input)} :
          /\ Run(s)
          /\ pc' = IF s.err = "" THEN (IF Main = "part_000" THEN "result" ELSE "narrate")
                   ELSE IF s.err = Panic(s).err THEN "crash"
                   ELSE "loop"
          /\ log' = IF s.err = "" THEN << Event("ProcessCommand", input) >>
                    ELSE << Event("ProcessCommand", input),
                            Event("print_error", "Error: " \o s.err) >>
    /\ UNCHANGED << Main, client, input >>

\* part_000: "Always show the factual result first"
ShowResult ==
    /\ pc = "result"
    /\ log' = IF LastResult # "" THEN Append(log, Event("print_result", LastResult))
              ELSE log
    /\ pc' = "narrate"
    /\ UNCHANGED << engine, Minutes, Main, client, input, saveFile, scenario >>

\* generateNarration that counts as an attempt, as a command does
narratedCounts(st) == [st EXCEPT !.CommandAttempts = @ + 1]

\* the game state after generateNarration: GetState hands out the engine's
\* own *GameState, and neither GetProgressiveHints nor GenerateNarration
\* assigns a field of it
narrated(st) == st

\* the calls generateNarration makes with a client: part_000 asks the
\* engine for the eligible hints first
narrationCalls ==
    IF Main = "part_000"
    THEN << Event("GetProgressiveHints", Join(GetProgressiveHints(State, Minutes), " / ")),
            Event("GenerateNarration", "") >>
    ELSE << Event("GenerateNarration", "") >>

\* what gameLoop prints once generateNarration returned (narration, failed)
narrationPrints(narration, failed) ==
    IF ~failed /\ narration # "" THEN << Event("print_narration", narration) >>
    ELSE IF Main = "main.go" /\ LastResult # ""
    THEN << Event("print_result", LastResult) >>
    ELSE << >>

\* narration, err := generateNarration(...), which fails without a client,
\* and the print that follows it
Narrate ==
    /\ pc = "narrate"
    /\ IF client
       THEN \E narration \in GenerateNarration(State) :
                log' = log \o narrationCalls \o narrationPrints(narration, FALSE)
       ELSE log' = log \o narrationPrints("", TRUE)
    /\ pc' = "loop"
    /\ Run(narrated(State))
    /\ UNCHANGED << Main, client, input >>

NextConsole == Won \/ ReadLine \/ Process \/ ShowResult \/ Narrate \/ Tick

\* gameLoop is entered with either file, with and without a client
InitConsole ==
    /\ Start("attic")
    /\ Main \in MainFiles
    /\ client \in BOOLEAN
    /\ pc = "loop"
    /\ input = ""
    /\ log = << >>

SpecConsole == InitConsole /\ [][NextConsole]_vars

(***************************************************************************)
(* scenario.go: the JSON form of a document.  The bytes of a file are kept *)
(* as what json.Unmarshal reads in them: whether they are well-formed      *)
(* JSON, the members of the object by the field they are tagged for, and   *)
(* the members whose value is not of the type of the field.                *)
(***************************************************************************)
\* the zero value of Scenario
ZeroScenario ==
    [ Theme |-> "", Setting |-> "", BackStory |-> "", Rooms |-> << >>,
      Items |-> << >>, Puzzles |-> << >>, Actions |-> << >>, WinCondition |-> "",
      Hints |-> << >>, ProgressiveHints |-> << >> ]

\* json.MarshalIndent writes every field of the document
ToJSON(s) == [wellFormed |-> TRUE, members |-> s, mistyped |-> {}]

\* json.Unmarshal into a zero Scenario: bytes that are not JSON leave it
\* zero; a member sets its field, a mistyped one is skipped and reported
\* once the other members are read, a field without a member stays zero
ScenarioFromJSON(data) ==
    IF ~data.wellFormed THEN [scenario |-> ZeroScenario, err |-> "invalid character"]
    ELSE [ scenario |->
             [f \in DOMAIN ZeroScenario |->
                 IF f \in DOMAIN data.members \ data.mistyped THEN data.members[f]
                 ELSE ZeroScenario[f]],
           err |-> IF data.mistyped \cap DOMAIN data.members = {} THEN ""
                   ELSE "cannot unmarshal" ]

\* the bytes without the members of some fields
Without(data, fields) ==
    [data EXCEPT !.members = [f \in DOMAIN data.members \ fields |-> data.members[f]]]

\* the bytes with another type of value in the members of some fields
Mistyped(data, fields) == [data EXCEPT !.mistyped = fields]

\* bytes that are not JSON
Garbled == [wellFormed |-> FALSE, members |-> << >>, mistyped |-> {}]

\* what the save file can hold when the program starts: nothing that
\* parses, a document of the current format, documents saved before
\* actions or progressive hints existed or with none of them, and
\* documents with a member of the wrong type
SavedData ==
    { Garbled,
      ToJSON(AtticScenario),
      Without(ToJSON(AtticScenario), {"Actions"}),
      Without(ToJSON(AtticScenario), {"ProgressiveHints"}),
      Without(ToJSON(AtticScenario), {"Actions", "ProgressiveHints"}),
      ToJSON([AtticScenario EXCEPT !.Actions = << >>]),
      ToJSON([AtticScenario EXCEPT !.ProgressiveHints = << >>]),
      Mistyped(ToJSON(AtticScenario), {"Theme"}),
      Mistyped(Without(ToJSON(AtticScenario), {"Actions"}), {"Hints"}) }

(***************************************************************************)
(* src/main.go: the built-in scenario of the file without the action       *)
(* system                                                                  *)
(***************************************************************************)
mainCreateFallbackScenario(theme) ==
    [ Theme |-> theme,
      Setting |-> "A mysterious locked room",
      BackStory |-> "You wake up in a strange room with no memory of how you got here. The door is locked, and you must find a way to escape.",
      Rooms |-> <<
        [ ID |-> "main_room",
          Name |-> "Main Room",
          Description |-> "A dimly lit room with stone walls and a heavy wooden door. There's a desk in the corner and strange symbols on the walls.",
          Items |-> << "key", "note", "candle" >>,
          Puzzles |-> << "door_puzzle", "symbol_puzzle" >>,
          Exits |-> << "exit" >>,
          Locked |-> FALSE, UnlockKey |-> "" ],
        [ ID |-> "exit",
          Name |-> "Freedom",
          Description |-> "The way out!",
          Items |-> << >>,
          Puzzles |-> << >>,
          Exits |-> << >>,
          Locked |-> TRUE, UnlockKey |-> "final_key" ]
      >>,
      Items |-> <<
        [ ID |-> "key",
          Name |-> "old key",
          Description |-> "A rusty old key with strange markings.",
          Usable |-> TRUE, UseWith |-> "", Hidden |-> FALSE, RevealedBy |-> "" ],
        [ ID |-> "note",
          Name |-> "cryptic note",
          Description |-> "A note that reads: 'The answer lies in the stars above, count them well.'",
          Usable |-> FALSE, UseWith |-> "", Hidden |-> FALSE, RevealedBy |-> "" ],
        [ ID |-> "candle",
          Name |-> "candle",
          Description |-> "A half-melted candle. It might illuminate hidden things.",
          Usable |-> TRUE, UseWith |-> "symbols", Hidden |-> FALSE, RevealedBy |-> "" ],
        [ ID |-> "final_key",
          Name |-> "golden key",
          Description |-> "A beautiful golden key that seems to glow with inner light.",
          Usable |-> TRUE, UseWith |-> "", Hidden |-> TRUE, RevealedBy |-> "symbol_puzzle" ]
      >>,
      Puzzles |-> <<
        [ ID |-> "door_puzzle",
          Name |-> "Locked Door",
          Description |-> "The main door is locked with an old lock.",
          Solution |-> "use key",
          RequiredItems |-> << "key" >>,
          Reward |-> "The door creaks open, but there's another challenge ahead.",
          Solved |-> FALSE ],
        [ ID |-> "symbol_puzzle",
          Name |-> "Wall Symbols",
          Description |-> "Strange symbols are carved into the wall. They seem to form a pattern.",
          Solution |-> "seven",
          RequiredItems |-> << "candle" >>,
          Reward |-> "The symbols glow and reveal a hidden compartment with a golden key!",
          Solved |-> FALSE ]
      >>,
      Actions |-> << >>,
      WinCondition |-> "Solve all puzzles and unlock the final door.",
      Hints |-> ("main_room" :> "Look carefully at everything in the room. The note might have a clue."),
      ProgressiveHints |-> << >> ]

(***************************************************************************)
(* main.go: main up to the call of NewEngine.  saveFile is the file of the *)
(* saved scenario, << >> where there is none; scenario and err are what    *)
(* loadOrCreateScenario hands to main, input is the theme.                 *)
(***************************************************************************)
\* the lines typed at the theme prompt
ThemeLines == { "", "  ", " Sunken Library " }

themes ==
    << "Haunted Victorian Mansion", "Abandoned Space Station", "Ancient Egyptian Tomb",
       "Mad Scientist's Laboratory", "Pirate Ship", "Time Machine Malfunction",
       "Zombie Apocalypse Bunker", "Magic Academy", "Bank Heist Gone Wrong",
       "Underwater Research Base" >>

\* what GenerateScenario can return without an error: the document the
\* completion holds, which the prompt asks for without actions and hints
Generated(theme) ==
    { [AtticScenario EXCEPT !.Theme = theme],
      [AtticScenario EXCEPT !.Theme = theme, !.Actions = << >>,
                            !.ProgressiveHints = << >>] }

\* createFallbackScenario of the running file
builtIn(theme) ==
    IF Main = "part_000" THEN createFallbackScenario(theme)
    ELSE mainCreateFallbackScenario(theme)

\* loadOrCreateScenario returns the loaded document: part_000 when it
\* parsed and has actions and progressive hints, src/main.go always,
\* whatever ScenarioFromJSON returned
savedIsUsed(main, loaded) ==
    IF main = "part_000"
    THEN /\ loaded.err = ""
         /\ Len(loaded.scenario.Actions) > 0
         /\ Len(loaded.scenario.ProgressiveHints) > 0
    ELSE TRUE

\* main after loadOrCreateScenario returned e: "Error setting up game"
\* and the end of the program, or NewEngine
afterLoad(e) == IF e # "" THEN "exit" ELSE "engine"

\* ioutil.ReadFile and, with a file, ScenarioFromJSON and the return of
\* the loaded document or the fall through to the theme prompt
Load ==
    /\ pc = "start"
    /\ IF saveFile = << >>
       THEN /\ pc' = "theme"
            /\ log' = << Event("print_creating", "") >>
            /\ UNCHANGED << scenario, err >>
       ELSE \E loaded \in {ScenarioFromJSON(saveFile[1])} :
               IF savedIsUsed(Main, loaded)
               THEN /\ scenario' = << loaded.scenario >>
                    /\ err' = loaded.err
                    /\ pc' = afterLoad(loaded.err)
                    /\ log' = IF loaded.err = ""
                              THEN << Event("print_loading", "") >>
                              ELSE << Event("print_loading", ""),
                                      Event("print_error", loaded.err) >>
               ELSE /\ pc' = "theme"
                    /\ log' = << Event("print_loading", ""), Event("print_outdated", ""),
                                 Event("print_creating", "") >>
                    /\ UNCHANGED << scenario, err >>
    /\ UNCHANGED << Scenario, Hidden, Locked, CurrentRoom, Inventory, SolvedPuzzles,
                    DiscoveredItems, PerformedActions, FailedAttempts, CommandAttempts,
                    Moves, Minutes, GameWon, LastAction, LastResult, actionProcessed,
                    fired, taken, Main, client, input, saveFile >>

\* the theme is read and trimmed; an empty one is replaced by the entry of
\* themes the clock selects
AskTheme ==
    /\ pc = "theme"
    /\ \E line \in ThemeLines :
          IF TrimSpace(line) # ""
          THEN /\ input' = TrimSpace(line)
               /\ log' = log
          ELSE \E now \in 0..(Len(themes) - 1) :
                  /\ input' = themes[now + 1]
                  /\ log' = Append(log, Event("print_theme", themes[now + 1]))
    /\ pc' = "generate"
    /\ UNCHANGED << engine, Minutes, Main, client, saveFile, scenario >>

\* generateOrUseFallback: with a client the generated document, and the
\* built-in scenario without a client or when the generation failed
Generate ==
    /\ pc = "generate"
    /\ \/ /\ client
          /\ \E generated \in Generated(input) : scenario' = << generated >>
          /\ log' = Append(log, Event("GenerateScenario", input))
       \/ /\ client
          /\ scenario' = << builtIn(input) >>
          /\ log' = log \o << Event("GenerateScenario", input), Event("print_failed", "") >>
       \/ /\ ~client
          /\ scenario' = << builtIn(input) >>
          /\ log' = Append(log, Event("print_fallback", ""))
    /\ pc' = "save"
    /\ UNCHANGED << engine, Minutes, Main, client, input, saveFile >>

\* the scenario is written to the save file where the directory can be
\* made; a failed write is not looked at
Save ==
    /\ pc = "save"
    /\ \/ UNCHANGED << saveFile, log >>
       \/ /\ UNCHANGED saveFile
          /\ log' = Append(log, Event("print_saved", ""))
       \/ /\ saveFile' = << ToJSON(scenario[1]) >>
          /\ log' = Append(log, Event("print_saved", ""))
    /\ pc' = afterLoad("")
    /\ UNCHANGED << engine, Minutes, Main, client, input, scenario >>

NextLoader == Load \/ AskTheme \/ Generate \/ Save

\* main before loadOrCreateScenario: no engine yet, any save file, either
\* file of main, with and without a client
InitLoader ==
    /\ Scenario = ""
    /\ Hidden = << >>
    /\ Locked = << >>
    /\ CurrentRoom = ""
    /\ Inventory = << >>
    /\ SolvedPuzzles = << >>
    /\ DiscoveredItems = << >>
    /\ PerformedActions = << >>
    /\ FailedAttempts = << >>
    /\ CommandAttempts = 0
    /\ Moves = 0
    /\ Minutes = 0
    /\ GameWon = FALSE
    /\ LastAction = ""
    /\ LastResult = ""
    /\ err = ""
    /\ actionProcessed = FALSE
    /\ fired = << >>
    /\ taken = ""
    /\ Main \in MainFiles
    /\ client \in BOOLEAN
    /\ pc = "start"
    /\ input = ""
    /\ log = << >>
    /\ saveFile \in {<< >>} \cup {<< data >> : data \in SavedData}
    /\ scenario = << >>

SpecLoader == InitLoader /\ [][NextLoader]_vars

(***************************************************************************)
(* Vocabulary of the properties                                            *)
(***************************************************************************)
InSeq(seq, x) == \E k \in 1..Len(seq) : seq[k] = x

NoDuplicates(seq) == \A j, k \in 1..Len(seq) : seq[j] = seq[k] => j = k

IsPrefix(a, b) == Len(a) <= Len(b) /\ SubSeq(b, 1, Len(a)) = a

\* this step is a ProcessCommand call
CommandStep == Moves' = Moves + 1

\* the arguments of a command line: its lower-cased fields after the verb
Args(command) == Tail(Fields(ToLower(command)))

\* the target text of a command line
Target(command) == Join(Args(command), " ")

\* the document of the session and the room the player is in
World == Doc(Scenario)
Here == World.Rooms[GetRoom(World, CurrentRoom)]

(***************************************************************************)
(* C1  A one-time-only action fires at most once per session: within one   *)
(* processActions call it fires at most once, a call in which it fires     *)
(* records its id in PerformedActions, and once its id is recorded no      *)
(* later call fires it (its effects and message are not applied again).    *)
(***************************************************************************)
C1_OneTimeOnlyFiresOnce ==
    [][CommandStep =>
        \A k \in 1..Len(World.Actions) :
            World.Actions[k].OneTimeOnly =>
                /\ Cardinality({j \in 1..Len(fired') : fired'[j] = k}) <= 1
                /\ InSeq(fired', k) => InSeq(PerformedActions', World.Actions[k].ID)
                /\ InSeq(PerformedActions, World.Actions[k].ID) => ~InSeq(fired', k)]_vars

\* "examine desk" was given again after examine_desk had fired: nothing fired
C1_Witness ==
    /\ InSeq(PerformedActions, "examine_desk")
    /\ LastAction = "examine desk"
    /\ fired = << >>
    /\ ~actionProcessed

(***************************************************************************)
(* C2  The win flag is monotonic: once GameWon is true it stays true       *)
(* through every further step.                                             *)
(***************************************************************************)
C2_WinMonotonic == [][IsGameWon(State) => IsGameWon(State)']_vars

\* the game is won and a command other than solve has been processed since
C2_Witness == GameWon /\ Verb(LastAction) # "solve" /\ err = ""

(***************************************************************************)
(* C3  A puzzle is solved at most once and never unsolved: SolvedPuzzles   *)
(* never holds an id twice, and every step only appends to it.             *)
(***************************************************************************)
C3_SolvedOnceForGood ==
    /\ [](NoDuplicates(SolvedPuzzles))
    /\ [][IsPrefix(SolvedPuzzles, SolvedPuzzles')]_vars

\* with riddle solved, the same answer was given again: riddle was skipped
\* and the answer was tried on the next puzzle of the room
C3_Witness ==
    /\ SolvedPuzzles = << "riddle" >>
    /\ LastAction = "solve echo"
    /\ LastResult = "That's not correct."

(***************************************************************************)
(* C4  `go <text>` whose matched exit (the first exit of the room that     *)
(* resolves and whose lower-cased name or id contains the text) is locked: *)
(* without the room's key in the inventory, or with no key declared,       *)
(* CurrentRoom is unchanged and the result is "That way is locked."; with  *)
(* the key, CurrentRoom becomes that room's id.                            *)
(***************************************************************************)
C4_MatchedExits(direction) ==
    {k \in 1..Len(Here.Exits) :
        /\ GetRoom(World, Here.Exits[k]) # 0
        /\ \/ Contains(ToLower(World.Rooms[GetRoom(World, Here.Exits[k])].Name), direction)
           \/ Contains(ToLower(Here.Exits[k]), direction)}

C4_LockedExit ==
    [][(CommandStep /\ verbOf[LastAction'] \in MoveVerbs)
       => \A direction \in {Target(LastAction')} :
            \A matched \in {C4_MatchedExits(direction)} :
              (direction # "" /\ matched # {})
              => LET exitID == Here.Exits[Min(matched)]
                     r == GetRoom(World, exitID)
                     key == World.Rooms[r].UnlockKey
                 IN  Locked[r] =>
                       IF key = "" \/ ~InSeq(Inventory, key)
                       THEN CurrentRoom' = CurrentRoom /\ LastResult' = "That way is locked."
                       ELSE CurrentRoom' = exitID]_vars

\* the player entered the locked cellar with its key, the coin
C4_Witness ==
    /\ CurrentRoom = "cellar"
    /\ Locked[GetRoom(World, "cellar")]
    /\ InSeq(Inventory, "coin")
    /\ LastAction = "go cellar"

(***************************************************************************)
(* C5  The inventory never holds an item id twice.                         *)
(***************************************************************************)
C5_InventoryNoDuplicates == NoDuplicates(Inventory)

(***************************************************************************)
(* C6  Taking is idempotent.  As claimed: when `take X` added an item, an  *)
(* immediately repeated `take X` leaves the inventory unchanged and sets   *)
(* the result to "You already have that."                                  *)
(***************************************************************************)
C6_RepeatedTake ==
    [][(CommandStep /\ Verb(LastAction') \in TakeVerbs /\ LastAction' = LastAction
           /\ taken # "")
       => (Inventory' = Inventory /\ LastResult' = "You already have that.")]_vars

\* C6 as amended: the same, for a take and a repeat in which no action fires
C6_RepeatedTakeNoAction ==
    [][(CommandStep /\ Verb(LastAction') \in TakeVerbs /\ LastAction' = LastAction
           /\ taken # "" /\ ~actionProcessed /\ ~actionProcessed')
       => (Inventory' = Inventory /\ LastResult' = "You already have that.")]_vars

\* "get coin" was repeated right after it had added the coin
C6_Witness ==
    /\ LastAction = "get coin"
    /\ LastResult = "You already have that."
    /\ taken = ""
    /\ ~actionProcessed
    /\ InSeq(Inventory, "coin")

(***************************************************************************)
(* C7  look <text>.  As claimed: for every item i listed in the current    *)
(* room whose name contains the text, the result is i's description when i *)
(* is not hidden and "You don't see that here." when i is hidden.          *)
(***************************************************************************)
\* the items listed in the current room (by index in the document) that resolve
C7_Listed == {GetItem(World, Here.Items[k]) : k \in 1..Len(Here.Items)} \ {0}

C7_Visible(target) ==
    {k \in 1..Len(Here.Items) :
        /\ GetItem(World, Here.Items[k]) # 0
        /\ ~Hidden[GetItem(World, Here.Items[k])]
        /\ Contains(ToLower(World.Items[GetItem(World, Here.Items[k])].Name), target)}

C8_BuiltInWinnable ==
    /\ []( /\ Len(World.Puzzles) = 3
           /\ Moves = 0 => CurrentRoom = "study"
           /\ GameWon <=> Len(SolvedPuzzles) >= 3 )
    /\ [][(CommandStep /\ LastAction' = "examine desk")
             => ~Hidden'[GetItem(World, "desk_drawer")]]_vars

\* the third puzzle has just been solved, in the hidden passage, and the game is won
C8_Witness ==
    /\ Scenario = "fallback"
    /\ SolvedPuzzles = << "painting_puzzle", "clock_puzzle", "treasure_chest" >>
    /\ LastAction = "solve use key and compass"
    /\ CurrentRoom = "hidden_passage"
    /\ GameWon

(***************************************************************************)
(* C9  In a scenario with at least one puzzle, GameWon is true exactly     *)
(* when the number of solved puzzles is at least the number of puzzles of  *)
(* the scenario.                                                           *)
(***************************************************************************)
C9_WonIffAllSolved ==
    Len(World.Puzzles) >= 1 => (GameWon <=> Len(SolvedPuzzles) >= Len(World.Puzzles))

\* both puzzles of the attic are solved and the game is won
C9_Witness == GameWon /\ Len(SolvedPuzzles) = 2 /\ Len(World.Puzzles) = 2

(***************************************************************************)
(* C10  A progressive hint whose context is the current room and whose     *)
(* only trigger is {commands_tried, T} is among the eligible hints exactly *)
(* when CommandAttempts >= T.                                              *)
(***************************************************************************)
C10_CommandsTriedHint ==
    \A k \in 1..Len(World.ProgressiveHints) :
        LET hint == World.ProgressiveHints[k]
        IN  (/\ hint.Context = CurrentRoom
             /\ Len(hint.Triggers) = 1
             /\ hint.Triggers[1].Type = "commands_tried")
            => (InSeq(GetProgressiveHints(State, Minutes), hint.HintText)
                   <=> CommandAttempts >= hint.Triggers[1].Threshold)

\* after the third command in the attic the hint with threshold 3 is eligible
C10_Witness ==
    /\ CurrentRoom = "attic"
    /\ CommandAttempts = 3
    /\ InSeq(GetProgressiveHints(State, Minutes), "Have you searched the desk?")

(***************************************************************************)
(* C11: a command whose verb no case of ProcessCommand names sets the      *)
(* result to "I don't understand that command." and leaves the current     *)
(* room, the inventory, the solved puzzles, the performed actions, the win *)
(* flag and every hidden and locked flag as they were; only the two        *)
(* counters and the last command change with it.                           *)
(***************************************************************************)
C11_UnknownVerbFrame ==
    [][(CommandStep /\ verbOf[LastAction'] \in OtherVerbs)
       => /\ LastResult' = "I don't understand that command."
          /\ LastAction' \in Commands(Scenario)
          /\ Moves' = Moves + 1
          /\ CommandAttempts' = CommandAttempts + 1
          /\ UNCHANGED << CurrentRoom, Inventory, SolvedPuzzles, PerformedActions,
                          DiscoveredItems, FailedAttempts, GameWon, Hidden, Locked >>]_vars

\* "dance" was typed with the matches taken, the desk searched and another
\* result on the screen before it
C11_Witness ==
    /\ LastAction = "dance"
    /\ LastResult = "I don't understand that command."
    /\ Inventory # << >>
    /\ PerformedActions # << >>
    /\ \E i \in DOMAIN Hidden : Hidden[i] # AtticScenario.Items[i].Hidden

(***************************************************************************)
(* C12: in every reachable state, for every puzzle of the scenario, the    *)
(* puzzle's own solved flag is true if and only if the puzzle's id is in   *)
(* SolvedPuzzles.                                                          *)
(***************************************************************************)
C12_SolvedFlagConsistent ==
    \A i \in 1..Len(World.Puzzles) :
        PuzzleSolved(State, i) <=> IsPuzzleSolved(State, World.Puzzles[i].ID)

(***************************************************************************)
(* C13: in every reachable state CurrentRoom is the id of a room of the    *)
(* scenario, and no command fails on an id that does not resolve: every    *)
(* command returns no error but that of the empty line, and it leaves the  *)
(* state it would leave were the ids that do not resolve absent from the   *)
(* item, puzzle and exit lists of the rooms.                               *)
(***************************************************************************)
C13_Skipping(command) ==
    [ProcessCommand([State EXCEPT !.Scenario = "attic_pruned"], command)
        EXCEPT !.Scenario = Scenario]

C13_NoMissingEntity ==
    /\ [](GetRoom(World, CurrentRoom) # 0)
    /\ [][CommandStep
          => /\ err' \in {"", "empty command"}
             /\ State' = C13_Skipping(LastAction')]_vars

\* "go cellar" passed over the exit "nowhere", "get coin" over the item
\* "ghost" and "solve echo" over the puzzle "phantom"
C13_Witness ==
    /\ CurrentRoom = "cellar"
    /\ HasItem(State, "coin")
    /\ IsPuzzleSolved(State, "riddle")
    /\ AtticScenario.Rooms[1].Exits[1] = "nowhere" /\ GetRoom(World, "nowhere") = 0
    /\ AtticScenario.Rooms[1].Items[1] = "ghost" /\ GetItem(World, "ghost") = 0
    /\ AtticScenario.Rooms[1].Puzzles[1] = "phantom" /\ GetPuzzle(World, "phantom") = 0

(***************************************************************************)
(* Vocabulary of the console properties                                    *)
(***************************************************************************)
\* the places of the log with an entry of one of the kinds
Logged(evs) == {k \in 1..Len(log) : log[k].ev \in evs}

\* the pass of the loop handed a line to the engine, which returned no error
TurnDone == pc = "loop" /\ Logged({"ProcessCommand"}) # {} /\ Logged({"print_error"}) = {}

(***************************************************************************)
(* C14: narration never alters the game state.  The eligible hints are     *)
(* computed and the narration is generated only after ProcessCommand has   *)
(* returned for the line of the turn, and the step that does so, whether   *)
(* the narration comes, fails or there is no client, leaves every field of *)
(* the game state and every hidden and locked flag as it was.              *)
(***************************************************************************)
C14_NarrationFrame ==
    /\ [](\A k \in Logged({"GetProgressiveHints", "GenerateNarration", "print_narration"}) :
             /\ log[1] = Event("ProcessCommand", input)
             /\ LastAction = input
             /\ k > 1)
    /\ [][(pc = "narrate" /\ pc' # "narrate")
          => /\ State' = State
             /\ IsPrefix(log, log')
             /\ log[1] = Event("ProcessCommand", input)]_vars

\* with a client, "get coin" was processed and narrated with a completion;
\* the coin is in the inventory
C14_Witness ==
    /\ TurnDone
    /\ client
    /\ Main = "part_000"
    /\ LastAction = "get coin"
    /\ Inventory = << "coin" >>
    /\ Logged({"GetProgressiveHints"}) # {}
    /\ log[Len(log)] = Event("print_narration", "A cold draught stirs the dust.")

(***************************************************************************)
(* C15: in every turn of the console loop the result text is printed       *)
(* before any narration text, and a result that is not empty is printed    *)
(* also when there is a narration to print.                                *)
(***************************************************************************)
C15_ResultThenNarration ==
    /\ \A i \in Logged({"print_result"}) : \A j \in Logged({"print_narration"}) : i < j
    /\ (TurnDone /\ LastResult # "")
         => \E k \in Logged({"print_result"}) : log[k].text = LastResult

(***************************************************************************)
(* C16: the console loop ends only on an explicit quit or exit: in every   *)
(* state in which gameLoop has left its loop or the program has crashed,   *)
(* the line read last is quit or exit.                                     *)
(***************************************************************************)
C16_QuitTyped == ToLower(input) \in {"quit", "exit"}

C17_Variants == {"attic_solutions", "attic_gold", "attic_note", "attic_gold_note"}

\* the items the document behind v replaces
C17_Replaced(v) == {i \in 1..Len(World.Items) : Doc(v).Items[i] # World.Items[i]}

\* v differs from the document of the session in secrets only
C17_Secret(v) ==
    \A i \in C17_Replaced(v) : Hidden[i] /\ ~HasItem(State, World.Items[i].ID)

C17_Prompt(st) == narrationPrompt(st, contextHints(st, Minutes, Main))

C17_PromptKeepsSecrets ==
    (pc = "narrate" /\ client)
      => \A v \in C17_Variants :
           C17_Secret(v) => C17_Prompt([State EXCEPT !.Scenario = v]) = C17_Prompt(State)

\* a narration is asked for after "examine desk" revealed the gold coin and
\* "get coin" took the silver one: the note is still a secret, the gold coin
\* is not, and the solutions are
C17_Witness ==
    /\ pc = "narrate"
    /\ client
    /\ Main = "part_000"
    /\ Inventory = << "coin" >>
    /\ ~Hidden[4]
    /\ C17_Secret("attic_note")
    /\ ~C17_Secret("attic_gold")
    /\ C17_Secret("attic_solutions")
    /\ Doc("attic_solutions").Puzzles # World.Puzzles

(***************************************************************************)
(* C18: a saved document that does not parse, or has no action or no       *)
(* progressive hint, is not handed to main: the loader goes on to the      *)
(* theme prompt, and the scenario main then receives is a generated one or *)
(* the built-in one.                                                       *)
(***************************************************************************)
C18_CurrentFormat(data) ==
    /\ ScenarioFromJSON(data).err = ""
    /\ Len(ScenarioFromJSON(data).scenario.Actions) > 0
    /\ Len(ScenarioFromJSON(data).scenario.ProgressiveHints) > 0

C18_StaleIsReplaced ==
    /\ [][(pc = "start" /\ saveFile # << >> /\ ~C18_CurrentFormat(saveFile[1]))
          => (pc' = "theme" /\ scenario' = << >>)]_vars
    /\ [](pc \in {"save", "engine"} /\ (\E k \in 1..Len(log) : log[k].ev = "print_creating")
          => scenario[1] \in Generated(input) \cup {builtIn(input)})

(***************************************************************************)
(* C19: in every processActions call a command makes, an action matches    *)
(* the call exactly when its trigger type is the type of the call, its     *)
(* declared target lies inside the target of the call and, where it        *)
(* declares a with, that lies inside the with of the call, letter case     *)
(* apart; only matching actions fire, and an action that declares no       *)
(* target (and has no condition and no one-time flag) fires for every      *)
(* target of its type that passes its with.                                *)
(***************************************************************************)
\* a occurs in b, letter case apart
C19_Inside(a, b) ==
    \E i \in 0..(Len(b) - Len(a)) :
        \A j \in 1..Len(a) : ToLower(CharAt(a, j)) = ToLower(CharAt(b, i + j))

C19_Matches(action, call) ==
    /\ action.Trigger.Type = call[1]
    /\ C19_Inside(action.Trigger.Target, call[2])
    /\ action.Trigger.With # "" => C19_Inside(action.Trigger.With, call[3])

\* the processActions call of a command line: (actionType, target, withItem)
Calls(command) ==
    LET target == Target(command)
        parts == splitUse(target)
    IN  IF verbOf[command] \in LookVerbs THEN {<< "examine", target, "" >>}
        ELSE IF verbOf[command] \in TakeVerbs THEN {<< "take", target, "" >>}
        ELSE IF verbOf[command] # "use" THEN {}
        ELSE IF ~(Contains(target, " with ") \/ Contains(target, " on "))
        THEN {<< "use", target, "" >>}
        ELSE IF Len(parts) = 2
        THEN {<< "use_with", TrimSpace(parts[1]), TrimSpace(parts[2]) >>}
        ELSE {}

C19_TriggerMatching ==
    [][CommandStep =>
        \A call \in Calls(LastAction') :
            \A k \in 1..Len(World.Actions) :
                /\ matchesAction(World.Actions[k], call[1], call[2], call[3])
                      <=> C19_Matches(World.Actions[k], call)
                /\ InSeq(fired', k) => C19_Matches(World.Actions[k], call)
                /\ ( /\ World.Actions[k].Trigger.Target = ""
                     /\ World.Actions[k].Trigger.Type = call[1]
                     /\ World.Actions[k].Trigger.With # ""
                           => C19_Inside(World.Actions[k].Trigger.With, call[3])
                     /\ World.Actions[k].Conditions = << >>
                     /\ ~World.Actions[k].OneTimeOnly )
                   => InSeq(fired', k)]_vars

\* "creak" (target "Raft") has fired on "look rafters", and "strike", which
\* declares no target and the with "Candle", fires on "use matches with candle"
C19_Witness ==
    /\ InSeq(PerformedActions, "creak")
    /\ LastAction = "use matches with candle"
    /\ fired = << 5 >>
    /\ World.Actions[5].Trigger.Target = ""

(***************************************************************************)
(* C20: in every processActions call a command makes, the actions that     *)
(* fire are, in declared order, all the actions whose trigger matches the  *)
(* call, that are not performed one-time actions and whose conditions hold *)
(* when the loop comes to them, not only the first of them; the call       *)
(* returns true exactly when an action fired, and a look is answered by    *)
(* the message of the last action that fired with a message.               *)
(***************************************************************************)
\* the state in which a command line makes its processActions call: after
\* the handler for a take or a use, before it for a look
AtCall(command) ==
    LET s0 == [beginCommand(State, command) EXCEPT
                  !.err = "", !.actionProcessed = FALSE, !.fired = << >>, !.taken = ""]
    IN  IF verbOf[command] \in TakeVerbs THEN handleTake(s0, Args(command))
        ELSE IF verbOf[command] = "use" THEN handleUse(s0, Args(command))
        ELSE s0

\* the inventory after add_inventory and after remove_inventory of an id
InventoryAdded(inv, id) == IF InSeq(inv, id) THEN inv ELSE Append(inv, id)

InventoryRemoved(inv, id) ==
    IF ~InSeq(inv, id) THEN inv
    ELSE LET first == CHOOSE k \in 1..Len(inv) :
                          inv[k] = id /\ \A j \in 1..(k - 1) : inv[j] # id
         IN  [j \in 1..(Len(inv) - 1) |-> IF j < first THEN inv[j] ELSE inv[j + 1]]

\* the inventory after the effects of one action
RECURSIVE InventoryAfterEffects(_, _)
InventoryAfterEffects(inv, effects) ==
    IF effects = << >> THEN inv
    ELSE InventoryAfterEffects(
             CASE Head(effects).Type = "add_inventory" -> InventoryAdded(inv, Head(effects).Target)
               [] Head(effects).Type = "remove_inventory" -> InventoryRemoved(inv, Head(effects).Target)
               [] OTHER -> inv,
             Tail(effects))

\* the inventory after the effects of the actions that fired, in their order
RECURSIVE InventoryAfterActions(_, _)
InventoryAfterActions(inv, firedNow) ==
    IF firedNow = << >> THEN inv
    ELSE InventoryAfterActions(InventoryAfterEffects(inv, World.Actions[Head(firedNow)].Effects),
                          Tail(firedNow))

\* the ids that the actions that fired record as performed, in their order
RECURSIVE PerformedBy(_)
PerformedBy(firedNow) ==
    IF firedNow = << >> THEN << >>
    ELSE (IF World.Actions[Head(firedNow)].OneTimeOnly
          THEN << World.Actions[Head(firedNow)].ID >> ELSE << >>)
         \o PerformedBy(Tail(firedNow))

\* the state in which the loop of a processActions call looks at the action
\* with index k: the state st of the call with the inventory and the
\* performed actions as the actions that fired before k left them
AtAction(st, firedNow, k) ==
    LET earlier == SelectSeq(firedNow, LAMBDA j : j < k)
    IN  [st EXCEPT !.Inventory = InventoryAfterActions(@, earlier),
                   !.PerformedActions = @ \o PerformedBy(earlier)]

C20_Eligible(st, k, call) ==
    /\ matchesAction(World.Actions[k], call[1], call[2], call[3])
    /\ ~(World.Actions[k].OneTimeOnly /\ InSeq(st.PerformedActions, World.Actions[k].ID))
    /\ checkActionConditions(st, World.Actions[k].Conditions)

C20_AllEligibleFire ==
    [][CommandStep =>
        \A call \in Calls(LastAction') :
            \A st \in {AtCall(LastAction')} :
                /\ \A k \in 1..Len(World.Actions) :
                       InSeq(fired', k) <=> C20_Eligible(AtAction(st, fired', k), k, call)
                /\ \A i, j \in 1..Len(fired') : i < j => fired'[i] < fired'[j]
                /\ actionProcessed' <=> fired' # << >>
                /\ \A said \in {{i \in 1..Len(fired') : World.Actions[fired'[i]].Message # ""}} :
                       (verbOf[LastAction'] \in LookVerbs /\ said # {})
                          => LastResult' = World.Actions[fired'[CHOOSE i \in said : \A j \in said : j <= i]].Message]_vars

\* the first "look rafters": "listen" and "creak" both fire, in this order
C20_Witness ==
    /\ LastAction = "look rafters"
    /\ fired = << 2, 4 >>
    /\ actionProcessed
    /\ LastResult = "A board creaks overhead."

(***************************************************************************)
(* C21: an action fires in a processActions call only if every one of its  *)
(* conditions holds when the loop comes to it (has_item: the id is in the  *)
(* inventory; in_room: the current room is the value; puzzle_solved: the   *)
(* id is among the solved puzzles; action_performed: the id is among the   *)
(* performed actions), and a matching action that is not a performed       *)
(* one-time action fires when all of them hold, so with no condition at    *)
(* all.                                                                    *)
(***************************************************************************)
C21_Holds(st, condition) ==
    /\ condition.Type = "has_item" => InSeq(st.Inventory, condition.Value)
    /\ condition.Type = "in_room" => st.CurrentRoom = condition.Value
    /\ condition.Type = "puzzle_solved" => InSeq(st.SolvedPuzzles, condition.Value)
    /\ condition.Type = "action_performed" => InSeq(st.PerformedActions, condition.Value)

C21_AllHold(st, k) ==
    \A c \in 1..Len(World.Actions[k].Conditions) :
        C21_Holds(st, World.Actions[k].Conditions[c])

C21_ConditionsAnd ==
    [][CommandStep =>
        \A call \in Calls(LastAction') :
            \A st \in {AtCall(LastAction')} :
                \A k \in 1..Len(World.Actions) :
                    \A seen \in {AtAction(st, fired', k)} :
                        /\ InSeq(fired', k) => C21_AllHold(seen, k)
                        /\ ( /\ matchesAction(World.Actions[k], call[1], call[2], call[3])
                             /\ ~(World.Actions[k].OneTimeOnly
                                     /\ InSeq(seen.PerformedActions, World.Actions[k].ID))
                             /\ C21_AllHold(seen, k) )
                           => InSeq(fired', k)]_vars

\* "look hatch" in the cellar with the coin: "pry" does not fire, for the
\* player is not in the attic; and "pocket", which has no condition, fired
C21_Witness ==
    /\ LastAction = "look hatch"
    /\ CurrentRoom = "cellar"
    /\ InSeq(Inventory, "coin")
    /\ fired = << >>
    /\ InSeq(PerformedActions, "pocket")

(***************************************************************************)
(* C22: solve <answer> looks at the first puzzle of the room's list that   *)
(* resolves and is not solved.  When the player lacks one of its required  *)
(* items or the answer is not its solution, letter case apart, the call    *)
(* changes the result and the counters only, whatever the later puzzles    *)
(* would accept; a call that solves a puzzle solves that first one, so in  *)
(* every room the solved puzzles come before the unsolved ones.            *)
(***************************************************************************)
\* the positions in the room's puzzle list of the puzzles that resolve
C22_Listed == {k \in 1..Len(Here.Puzzles) : GetPuzzle(World, Here.Puzzles[k]) # 0}

C22_Open == {k \in C22_Listed : ~InSeq(SolvedPuzzles, Here.Puzzles[k])}

C22_Accepts(k, answer) ==
    LET puzzle == World.Puzzles[GetPuzzle(World, Here.Puzzles[k])]
    IN  /\ \A j \in 1..Len(puzzle.RequiredItems) : InSeq(Inventory, puzzle.RequiredItems[j])
        /\ ToLower(answer) = ToLower(puzzle.Solution)

C22_FirstOpenPuzzleOnly ==
    /\ [][(CommandStep /\ verbOf[LastAction'] = "solve")
          => \A answer \in {Target(LastAction')} :
               (answer # "" /\ C22_Open # {})
               => IF C22_Accepts(Min(C22_Open), answer)
                  THEN SolvedPuzzles' = Append(SolvedPuzzles, Here.Puzzles[Min(C22_Open)])
                  ELSE /\ UNCHANGED << Hidden, Locked, CurrentRoom, Inventory, SolvedPuzzles,
                                       DiscoveredItems, PerformedActions, FailedAttempts,
                                       GameWon >>
                       /\ LastResult' \in
                             { "You don't have everything needed to solve this puzzle.",
                               "That's not correct." }]_vars
    /\ [](\A r \in 1..Len(World.Rooms) :
             \A j, k \in 1..Len(World.Rooms[r].Puzzles) :
                 ( /\ j < k
                   /\ GetPuzzle(World, World.Rooms[r].Puzzles[j]) # 0
                   /\ InSeq(SolvedPuzzles, World.Rooms[r].Puzzles[k]) )
                 => InSeq(SolvedPuzzles, World.Rooms[r].Puzzles[j]))

\* "solve seven" with the coin in hand: the riddle, first in the room, does
\* not accept it, and the lockbox, whose solution it is, stays unsolved
C22_Witness ==
    /\ LastAction = "solve seven"
    /\ LastResult = "That's not correct."
    /\ InSeq(Inventory, "coin")
    /\ SolvedPuzzles = << >>
    /\ World.Puzzles[GetPuzzle(World, "lockbox")].Solution = "seven"

(***************************************************************************)
(* C23: in every state, a progressive hint is among the hints the engine   *)
(* returns exactly when its context is the id of the current room or the   *)
(* id of a puzzle in the list of the current room that is not solved, and  *)
(* one of its triggers is met; so a hint for a puzzle is not returned once *)
(* the puzzle is solved, nor in a room that does not list the puzzle.      *)
(***************************************************************************)
C23_TriggerMet(hint, trigger) ==
    \/ /\ trigger.Type = "failed_attempts"
       /\ (IF hint.Context \in DOMAIN FailedAttempts THEN FailedAttempts[hint.Context] ELSE 0)
             >= trigger.Threshold
    \/ trigger.Type = "time_spent" /\ Minutes >= trigger.Threshold
    \/ trigger.Type = "commands_tried" /\ CommandAttempts >= trigger.Threshold

C23_ContextApplies(hint) ==
    \/ hint.Context = CurrentRoom
    \/ InSeq(Here.Puzzles, hint.Context) /\ ~InSeq(SolvedPuzzles, hint.Context)

C23_HintEligibility ==
    \A h \in 1..Len(World.ProgressiveHints) :
        InSeq(GetProgressiveHints(State, Minutes), World.ProgressiveHints[h].HintText)
        <=> /\ C23_ContextApplies(World.ProgressiveHints[h])
            /\ \E t \in 1..Len(World.ProgressiveHints[h].Triggers) :
                  C23_TriggerMet(World.ProgressiveHints[h],
                                 World.ProgressiveHints[h].Triggers[t])

\* a minute has passed and the riddle is solved: its hint is not returned
\* any more in the attic, where the riddle is, and the hint of the room is
C23_Witness ==
    /\ Minutes = 1
    /\ CurrentRoom = "attic"
    /\ InSeq(SolvedPuzzles, "riddle")
    /\ GetProgressiveHints(State, Minutes) = << "Have you searched the desk?" >>

(***************************************************************************)
(* C24: a command with a verb ProcessCommand has a case for, processed     *)
(* without an error, leaves a result that the command and the game state   *)
(* determine: the same text whatever the result of the turn before was,    *)
(* and never that result passed on.                                        *)
(***************************************************************************)
\* the state with a text of its own as the result of the turn before
C24_Before == [State EXCEPT !.LastResult = "(the result of the turn before)"]

C24_FreshResult ==
    [][(CommandStep /\ verbOf[LastAction'] \in KnownVerbs /\ err' = "")
       => \A s \in {ProcessCommand(C24_Before, LastAction')} :
            /\ s.LastResult = LastResult'
            /\ s.LastResult # C24_Before.LastResult]_vars

(***************************************************************************)
(* C25: use <text>.  The text is cut at " with " where it has one and at   *)
(* " on " only where it has no " with ".  With one such place the command  *)
(* is the combination of the text before it and the text after it: the     *)
(* state it leaves is that of handleItemCombination followed by the        *)
(* use_with actions for the two.  With neither, only use actions fire and  *)
(* the result is that of a single item or the message of such an action.   *)
(***************************************************************************)
\* the places where sep occurs in text
C25_Places(text, sep) ==
    {i \in 1..(Len(text) - Len(sep) + 1) : SubSeq(text, i, i + Len(sep) - 1) = sep}

\* the separator the text is cut at
C25_Separator(text) == IF C25_Places(text, " with ") # {} THEN " with " ELSE " on "

\* the state after the three assignments ProcessCommand starts with
C25_Begun(command) ==
    [beginCommand(State, command) EXCEPT
        !.err = "", !.actionProcessed = FALSE, !.fired = << >>, !.taken = ""]

C25_SingleResults ==
    {"You don't have that item or can't use it."}
    \cup {"You use the " \o World.Items[i].Name \o "." : i \in 1..Len(World.Items)}
    \cup {World.Actions[k].Message : k \in 1..Len(World.Actions)}

C25_UseSplit ==
    [][(CommandStep /\ verbOf[LastAction'] = "use")
       => \A text \in {Target(LastAction')} :
            \A places \in {C25_Places(text, C25_Separator(text))} :
              /\ (text # "" /\ places = {})
                 => /\ \A j \in 1..Len(fired') : World.Actions[fired'[j]].Trigger.Type = "use"
                    /\ LastResult' \in C25_SingleResults
              /\ Cardinality(places) = 1
                 => \A at \in places :
                      \A primary \in {TrimSpace(SubSeq(text, 1, at - 1))} :
                        \A secondary \in
                              {TrimSpace(SubSeq(text, at + Len(C25_Separator(text)), Len(text)))} :
                          State' = processActions(
                                      handleItemCombination(C25_Begun(LastAction'),
                                                            primary, secondary),
                                      "use_with", primary, secondary)]_vars

\* "use matches with candle on desk" with the matches in hand: the text is
\* cut at " with ", so the second item is "candle on desk"
C25_Witness ==
    /\ LastAction = "use matches with candle on desk"
    /\ InSeq(Inventory, "matches")
    /\ fired = << 5 >>
    /\ ~InSeq(Inventory, "lit_candle")

(***************************************************************************)
(* C26: use X with Y.  X is the first held item whose name contains the    *)
(* first text; Y is the first held item whose name contains the second     *)
(* text and, where none is held, the first such item of the room's list    *)
(* that is not hidden.  A missing X is reported before a missing Y.  With  *)
(* both found, and the pair not matches and candle, the result is the      *)
(* success message exactly when X's use_with is Y's id and the "can't use" *)
(* message otherwise, and nothing but the result text changes; for matches *)
(* and candle the built-in rule applies.                                   *)
(***************************************************************************)
\* the item with this id has a (lower-cased) name that contains the text
C26_Named(id, text) ==
    \E i \in 1..Len(World.Items) :
        World.Items[i].ID = id /\ Contains(ToLower(World.Items[i].Name), text)

C26_Held(text) == {k \in 1..Len(Inventory) : C26_Named(Inventory[k], text)}

C26_InRoom(text) ==
    {k \in 1..Len(Here.Items) :
        /\ C26_Named(Here.Items[k], text)
        /\ \E i \in 1..Len(World.Items) : World.Items[i].ID = Here.Items[k] /\ ~Hidden[i]}

\* the id of X and of Y; "" for an item that is not found
C26_First(text) == IF C26_Held(text) = {} THEN "" ELSE Inventory[Min(C26_Held(text))]

C26_Second(text) ==
    IF C26_Held(text) # {} THEN Inventory[Min(C26_Held(text))]
    ELSE IF C26_InRoom(text) # {} THEN Here.Items[Min(C26_InRoom(text))]
    ELSE ""

C26_Item(id) == World.Items[GetItem(World, id)]

C26_Success(x, y) ==
    "You use the " \o C26_Item(x).Name \o " with the " \o C26_Item(y).Name \o "."

C26_CantUse(x, y) ==
    "You can't use the " \o C26_Item(x).Name \o " with the " \o C26_Item(y).Name \o "."

\* the handler's result h, reached from the state b, for the texts of X and Y
C26_Missing(b, h, first, second) ==
    /\ C26_First(first) = ""
       => h = [b EXCEPT !.LastResult = "You don't have " \o first \o "."]
    /\ (C26_First(first) # "" /\ C26_Second(second) = "")
       => h = [b EXCEPT !.LastResult = "You don't see " \o second \o " here."]

C26_BuiltIn(x, y) == x = "matches" /\ y = "candle"

C26_Found(b, h, x, y) ==
    /\ h = [b EXCEPT !.LastResult = h.LastResult]
    /\ h.LastResult = C26_Success(x, y) <=> C26_Item(x).UseWith = y
    /\ C26_Item(x).UseWith # y => h.LastResult = C26_CantUse(x, y)

\* this step is a use command that is a combination of two texts
C26_Step == CommandStep /\ verbOf[LastAction'] = "use"

C26_Combination ==
    [][C26_Step
       => \A call \in Calls(LastAction') :
            call[1] = "use_with"
            => \A b \in {C25_Begun(LastAction')}, h \in {AtCall(LastAction')} :
                 /\ C26_Missing(b, h, call[2], call[3])
                 /\ \A x \in {C26_First(call[2])}, y \in {C26_Second(call[3])} :
                      (x # "" /\ y # "" /\ ~C26_BuiltIn(x, y)) => C26_Found(b, h, x, y)
                 /\ (\A j \in 1..Len(fired') : World.Actions[fired'[j]].Message = "")
                    => LastResult' = h.LastResult]_vars

\* the same without the exception of the built-in pair
C26_CombinationNoBuiltIn ==
    [][C26_Step
       => \A call \in Calls(LastAction') :
            call[1] = "use_with"
            => \A b \in {C25_Begun(LastAction')}, h \in {AtCall(LastAction')} :
                 \A x \in {C26_First(call[2])}, y \in {C26_Second(call[3])} :
                      (x # "" /\ y # "")
                      => /\ h.LastResult = C26_Success(x, y) <=> C26_Item(x).UseWith = y
                         /\ C26_Item(x).UseWith # y => h.LastResult = C26_CantUse(x, y)]_vars

\* the silver coin, declared for use with the candle, was used with it
C26_Witness ==
    /\ LastAction = "use coin with candle"
    /\ LastResult = "You use the Silver coin with the wax candle."
    /\ InSeq(Inventory, "coin")

(***************************************************************************)
(* C27: a room's locked flag changes only from locked to unlocked and only *)
(* in a command in which an action with an unlock_room effect for that     *)
(* room fired; a go command changes no locked flag, also when it enters a  *)
(* locked room with the key.                                               *)
(***************************************************************************)
\* an action that fired in the last ProcessCommand call unlocks the room r
C27_UnlockFired(firedNow, r) ==
    \E j \in 1..Len(firedNow) :
        \E e \in 1..Len(World.Actions[firedNow[j]].Effects) :
            /\ World.Actions[firedNow[j]].Effects[e].Type = "unlock_room"
            /\ World.Actions[firedNow[j]].Effects[e].Target = World.Rooms[r].ID

C27_LockedFlag ==
    [][/\ \A r \in DOMAIN Locked :
            Locked'[r] # Locked[r]
            => /\ Locked[r] /\ ~Locked'[r]
               /\ CommandStep
               /\ C27_UnlockFired(fired', r)
       /\ (CommandStep /\ verbOf[LastAction'] \in MoveVerbs) => Locked' = Locked]_vars

\* the player stands in the cellar, entered with the coin, and the cellar is
\* still locked, while the hatch action has unlocked the vault
C27_Witness ==
    /\ CurrentRoom = "cellar"
    /\ Locked[GetRoom(World, "cellar")]
    /\ ~Locked[GetRoom(World, "vault")]

(***************************************************************************)
(* C28: an item's hidden flag changes only in a command in which an action *)
(* with a reveal_item effect (to shown) or a hide_item effect (to hidden)   *)
(* for that item fired, or in which the built-in rule for matches and      *)
(* candle showed an item revealed by "use_matches".  The handlers of look, *)
(* take, use of one item, go, inventory, solve and hint change no hidden   *)
(* flag: a command without a fired action and without the built-in rule    *)
(* leaves the flags as they were.  The item lists of the rooms are those   *)
(* of the loaded document throughout, and an item just taken is still      *)
(* listed in the room.                                                     *)
(***************************************************************************)
\* an action that fired in the last ProcessCommand call has an effect of this
\* type on the item with index i
C28_EffectFired(firedNow, type, i) ==
    \E j \in 1..Len(firedNow) :
        \E e \in 1..Len(World.Actions[firedNow[j]].Effects) :
            /\ World.Actions[firedNow[j]].Effects[e].Type = type
            /\ World.Actions[firedNow[j]].Effects[e].Target = World.Items[i].ID

\* the command is a combination that resolves to matches and candle
C28_BuiltInRule(command) ==
    /\ verbOf[command] = "use"
    /\ \E call \in Calls(command) :
          /\ call[1] = "use_with"
          /\ C26_BuiltIn(C26_First(call[2]), C26_Second(call[3]))

C28_HiddenFlag ==
    [][/\ \A i \in DOMAIN Hidden :
            Hidden'[i] # Hidden[i]
            => /\ CommandStep
               /\ \/ ~Hidden'[i] /\ C28_EffectFired(fired', "reveal_item", i)
                  \/ Hidden'[i] /\ C28_EffectFired(fired', "hide_item", i)
                  \/ /\ ~Hidden'[i]
                     /\ C28_BuiltInRule(LastAction')
                     /\ World.Items[i].RevealedBy = "use_matches"
       /\ (CommandStep /\ fired' = << >> /\ ~C28_BuiltInRule(LastAction'))
          => Hidden' = Hidden
       /\ (CommandStep /\ verbOf[LastAction'] \in
                             (MoveVerbs \cup InventoryVerbs \cup {"solve", "hint"}))
          => fired' = << >>
       /\ Scenario' = Scenario
       /\ (CommandStep /\ taken' # "") => InSeq(Doc(Scenario').Rooms[GetRoom(Doc(Scenario'), CurrentRoom')].Items, taken')]_vars

\* the matches were taken and later hidden by the action of the rafters, the
\* gold coin was revealed at the desk, and the matches are still listed
C28_Witness ==
    /\ InSeq(Inventory, "matches")
    /\ Hidden[GetItem(World, "matches")]
    /\ ~Hidden[GetItem(World, "gold")]
    /\ InSeq(Here.Items, "matches")

(***************************************************************************)
(* C29: the inventory after a command in which actions fired is the        *)
(* inventory the handler left, changed by the inventory effects of those   *)
(* actions in their order, where add_inventory of a held id changes        *)
(* nothing and appends an id that is not held, and remove_inventory of an  *)
(* id that is not held changes nothing and otherwise takes out the first   *)
(* entry with that id and keeps the others in their order.                 *)
(***************************************************************************)
C29_InventoryEffects ==
    [][(CommandStep /\ fired' # << >>)
       => Inventory' = InventoryAfterActions(AtCall(LastAction').Inventory, fired')]_vars

\* "use coin" with the inventory matches, lit_candle, coin, gold, lit_candle:
\* the coin and the first of the two lit candles are gone, the rest is in order
C29_Witness ==
    /\ LastAction = "use coin"
    /\ Inventory = << "matches", "gold", "lit_candle" >>

(***************************************************************************)
(* C30: a command whose verb is an alias (examine; get, pick; move, walk;  *)
(* inv, i) leaves the state that the same line with the verb look, take,   *)
(* go or inventory in its place leaves from the same state, the recorded   *)
(* last command apart.                                                     *)
(***************************************************************************)
C30_Aliases ==
    [ examine |-> "look", get |-> "take", pick |-> "take",
      move |-> "go", walk |-> "go", inv |-> "inventory", i |-> "inventory" ]

\* the command line with the verb the alias stands for in the place of its verb
C30_Spelled(command) ==
    C30_Aliases[verbOf[command]]
        \o SubSeq(command, Len(verbOf[command]) + 1, Len(command))

C30_AliasesAgree ==
    [][(CommandStep /\ verbOf[LastAction'] \in DOMAIN C30_Aliases)
       => \A s \in {ProcessCommand(State, C30_Spelled(LastAction'))} :
            /\ s.LastAction = C30_Spelled(LastAction')
            /\ State' = [s EXCEPT !.LastAction = LastAction']]_vars

\* "pick matches" took the matches, "get coin" the coin and, by its action,
\* the gold coin, and "i" lists the three
C30_Witness ==
    /\ LastAction = "i"
    /\ LastResult = "You have: box of matches, Silver coin, gold coin"
    /\ Moves = 4

(***************************************************************************)
(* C31: on a document without actions, a command leaves the engine without *)
(* actions, run from the state the full engine is in, with the current     *)
(* room, inventory, solved puzzles, win flag and result text the full      *)
(* engine has after it; both start in the state of NewEngine, so every     *)
(* sequence of commands leaves the two engines in agreement.               *)
(***************************************************************************)
C31_SimpleAgrees ==
    [][(CommandStep /\ World.Actions = << >>)
       => \A s \in {simpleProcessCommand(State, LastAction')} :
            /\ s.CurrentRoom = CurrentRoom'
            /\ s.Inventory = Inventory'
            /\ s.SolvedPuzzles = SolvedPuzzles'
            /\ s.GameWon = GameWon'
            /\ s.LastResult = LastResult']_vars

(***************************************************************************)
(* C32: no context has a failed-attempt count in any reachable state, also *)
(* after wrong answers to solve, and a progressive hint all of whose       *)
(* triggers are failed_attempts triggers with a threshold of 1 or more is  *)
(* not among the hints returned.                                           *)
(***************************************************************************)
\* every trigger of the hint counts failed attempts, one at least
C32_FailuresOnly(hint) ==
    \A t \in 1..Len(hint.Triggers) :
        hint.Triggers[t].Type = "failed_attempts" /\ hint.Triggers[t].Threshold >= 1

C32_NoFailedAttempts ==
    /\ DOMAIN FailedAttempts = {}
    /\ \A h \in 1..Len(World.ProgressiveHints) :
          C32_FailuresOnly(World.ProgressiveHints[h])
          => ~InSeq(GetProgressiveHints(State, Minutes), World.ProgressiveHints[h].HintText)

\* a wrong answer was given to the riddle, which has a hint that asks for one
\* failed attempt and nothing else; the riddle is unsolved and in the room
C32_Witness ==
    /\ LastAction = "solve seven"
    /\ LastResult = "That's not correct."
    /\ InSeq(Here.Puzzles, "riddle")
    /\ ~InSeq(SolvedPuzzles, "riddle")
    /\ \E h \in 1..Len(World.ProgressiveHints) :
          /\ World.ProgressiveHints[h].Context = "riddle"
          /\ C32_FailuresOnly(World.ProgressiveHints[h])

(***************************************************************************)
(* C33: in the built-in scenario the player is in hidden_passage or in     *)
(* victory only after move_painting or solve_clock has fired: the item     *)
(* solved_puzzles, the key of hidden_passage, is held only after           *)
(* move_painting has fired, and hidden_passage is unlocked only after      *)
(* solve_clock has fired.                                                  *)
(***************************************************************************)
C33_BehindTheShelf ==
    Scenario = "fallback"
    => /\ CurrentRoom \in {"hidden_passage", "victory"}
          => \/ InSeq(PerformedActions, "move_painting")
             \/ InSeq(PerformedActions, "solve_clock")
       /\ InSeq(Inventory, "solved_puzzles") => InSeq(PerformedActions, "move_painting")
       /\ ~Locked[GetRoom(World, "hidden_passage")] => InSeq(PerformedActions, "solve_clock")

\* the player has walked through the passage into the garden
C33_Witness ==
    /\ Scenario = "fallback"
    /\ CurrentRoom = "victory"
    /\ InSeq(PerformedActions, "move_painting")

(***************************************************************************)
(* C34: in the built-in scenario the player moves from study to            *)
(* hidden_passage and from hidden_passage to victory only: out of study    *)
(* the player never is in study again, in victory the room never changes,  *)
(* and out of study no puzzle of study becomes solved and no item of study *)
(* enters the inventory.                                                   *)
(***************************************************************************)
C34_Study == World.Rooms[GetRoom(World, "study")]

C34_OneWay ==
    [][Scenario = "fallback"
       => /\ CurrentRoom' # CurrentRoom
             => << CurrentRoom, CurrentRoom' >> \in
                   { << "study", "hidden_passage" >>, << "hidden_passage", "victory" >> }
          /\ CurrentRoom # "study" => CurrentRoom' # "study"
          /\ CurrentRoom = "victory" => CurrentRoom' = "victory"
          /\ CurrentRoom # "study"
             => /\ \A k \in 1..Len(C34_Study.Puzzles) :
                      InSeq(SolvedPuzzles', C34_Study.Puzzles[k])
                      => InSeq(SolvedPuzzles, C34_Study.Puzzles[k])
                /\ \A k \in 1..Len(C34_Study.Items) :
                      InSeq(Inventory', C34_Study.Items[k])
                      => InSeq(Inventory, C34_Study.Items[k])]_vars

\* the player is in the passage and has left the painting puzzle unsolved
\* and the compass untaken in the study
C34_Witness ==
    /\ Scenario = "fallback"
    /\ CurrentRoom = "hidden_passage"
    /\ ~InSeq(SolvedPuzzles, "painting_puzzle")
    /\ ~InSeq(Inventory, "compass")

(***************************************************************************)
(* C35: a look command in which an action fired leaves no trace of the     *)
(* look handler: the result is the message of the last action that fired   *)
(* with a message, or the result of the turn before; one in which none     *)
(* fired leaves the state of the look handler.  A take or use command      *)
(* leaves the state of its handler changed by the actions that fired: the  *)
(* inventory of the handler with the inventory effects applied to it, and  *)
(* the message of the last action that fired with one, or else the         *)
(* handler's result.                                                       *)
(***************************************************************************)
\* the places in fired of the actions that have a message
C35_Said(firedNow) ==
    {j \in 1..Len(firedNow) : World.Actions[firedNow[j]].Message # ""}

\* the result after the actions that fired, where it was "before" ahead of them
C35_Result(before, firedNow) ==
    IF C35_Said(firedNow) = {} THEN before
    ELSE World.Actions[firedNow[CHOOSE j \in C35_Said(firedNow) :
                                    \A k \in C35_Said(firedNow) : k <= j]].Message

C35_Precedence ==
    [][CommandStep
       => /\ (verbOf[LastAction'] \in LookVerbs /\ fired' # << >>)
             => /\ LastResult' = C35_Result(LastResult, fired')
                /\ err' = ""
          /\ (verbOf[LastAction'] \in LookVerbs /\ fired' = << >>)
             => State' = handleLook(C25_Begun(LastAction'), Args(LastAction'))
          /\ verbOf[LastAction'] \in TakeVerbs \cup {"use"}
             => \A h \in {AtCall(LastAction')} :
                  /\ taken' = h.taken
                  /\ Inventory' = InventoryAfterActions(h.Inventory, fired')
                  /\ LastResult' = C35_Result(h.LastResult, fired')]_vars

\* "get coin" took the coin and then fired the action that also hands out
\* the gold coin; the result is the action's message, not "You take the ..."
C35_Witness ==
    /\ LastAction = "get coin"
    /\ taken = "coin"
    /\ Inventory = << "coin", "gold" >>
    /\ LastResult = "You pocket what you find."

(***************************************************************************)
(* C36: in a processActions call the one-time test and the conditions of   *)
(* an action are those of the state the actions fired before it in the     *)
(* same call have left.  An action fires exactly when its trigger matches, *)
(* it is not recorded as performed in that state and its conditions hold   *)
(* in it; so an action fires on a has_item or action_performed condition   *)
(* that did not hold when the call was made only where an action declared  *)
(* before it fired in the call and adds the item or is recorded under the  *)
(* id, and what an action declared after it adds or records does not make  *)
(* it fire.                                                                *)
(***************************************************************************)
\* the action with index j, fired in the call, makes this condition hold
C36_Supplies(j, condition) ==
    \/ /\ condition.Type = "has_item"
       /\ \E e \in 1..Len(World.Actions[j].Effects) :
             /\ World.Actions[j].Effects[e].Type = "add_inventory"
             /\ World.Actions[j].Effects[e].Target = condition.Value
    \/ /\ condition.Type = "action_performed"
       /\ World.Actions[j].OneTimeOnly
       /\ World.Actions[j].ID = condition.Value

C36_EarlierEffectsCount ==
    [][CommandStep =>
        \A call \in Calls(LastAction') :
            \A st \in {AtCall(LastAction')} :
                \A k \in 1..Len(World.Actions) :
                    \A seen \in {AtAction(st, fired', k)} :
                        /\ InSeq(fired', k)
                           <=> /\ C19_Matches(World.Actions[k], call)
                               /\ ~(World.Actions[k].OneTimeOnly
                                       /\ InSeq(seen.PerformedActions, World.Actions[k].ID))
                               /\ C21_AllHold(seen, k)
                        /\ InSeq(fired', k)
                           => \A c \in 1..Len(World.Actions[k].Conditions) :
                                ~C21_Holds(st, World.Actions[k].Conditions[c])
                                => \E j \in 1..(k - 1) :
                                      /\ InSeq(fired', j)
                                      /\ C36_Supplies(j, World.Actions[k].Conditions[c])]_vars

\* the first "get coin": "pocket" fired and "weigh", declared after it and in
\* need of the gold coin and of the record of "pocket", fired with it, while
\* "glance", declared before "pocket" with the same needs, did not
C36_Witness ==
    /\ LastAction = "get coin"
    /\ Len(fired) = 2
    /\ World.Actions[fired[1]].ID = "pocket"
    /\ World.Actions[fired[2]].ID = "weigh"
    /\ \E k \in 1..(fired[1] - 1) :
          /\ World.Actions[k].ID = "glance"
          /\ World.Actions[k].Conditions = World.Actions[fired[2]].Conditions
          /\ World.Actions[k].Trigger = World.Actions[fired[2]].Trigger

(***************************************************************************)
(* C37: PerformedActions holds ids of one-time-only actions only, each at  *)
(* most once, and grows in a command by the ids of the one-time-only       *)
(* actions that fired in it, in their order, and in no other way; an       *)
(* action_performed condition that names an action that is not             *)
(* one-time-only does not hold, so an action with such a condition never   *)
(* fires.                                                                  *)
(***************************************************************************)
\* the id is that of an action of the document, and of one-time-only ones only
C37_OneTimeID(id) ==
    /\ \E k \in 1..Len(World.Actions) : World.Actions[k].ID = id
    /\ \A k \in 1..Len(World.Actions) :
          World.Actions[k].ID = id => World.Actions[k].OneTimeOnly

\* the id is that of actions that are not one-time-only
C37_RepeatableID(id) ==
    /\ \E k \in 1..Len(World.Actions) : World.Actions[k].ID = id
    /\ \A k \in 1..Len(World.Actions) :
          World.Actions[k].ID = id => ~World.Actions[k].OneTimeOnly

C37_PerformedActions ==
    /\ [](/\ \A i \in 1..Len(PerformedActions) : C37_OneTimeID(PerformedActions[i])
          /\ NoDuplicates(PerformedActions)
          /\ \A k \in 1..Len(World.Actions) :
                \A c \in 1..Len(World.Actions[k].Conditions) :
                   ( /\ World.Actions[k].Conditions[c].Type = "action_performed"
                     /\ C37_RepeatableID(World.Actions[k].Conditions[c].Value) )
                   => /\ ~InSeq(PerformedActions, World.Actions[k].Conditions[c].Value)
                      /\ ~InSeq(fired, k))
    /\ [][PerformedActions' =
             PerformedActions \o (IF CommandStep THEN PerformedBy(fired') ELSE << >>)]_vars

\* "use coin" after "get coin": "drop", which is not one-time-only, fired and
\* is not recorded, and "rue", looked at after it and in need of the record,
\* did not fire; "pocket", one-time-only, is recorded once
C37_Witness ==
    /\ LastAction = "use coin"
    /\ Len(fired) = 1
    /\ World.Actions[fired[1]].ID = "drop"
    /\ PerformedActions = << "pocket" >>
    /\ Moves >= 3

(***************************************************************************)
(* C38: a command line without a field (empty, or blanks only) makes       *)
(* ProcessCommand return the error "empty command"; it leaves the result   *)
(* text, the current room, the inventory, the solved puzzles, the          *)
(* performed actions and the win flag as they were, and has counted the    *)
(* line in Moves and CommandAttempts and recorded it as the last command.  *)
(***************************************************************************)
\* the line has no character but blanks
C38_Blank(line) == \A i \in 1..Len(line) : CharAt(line, i) = " "

C38_EmptyCommand ==
    [][\A line \in DOMAIN verbOf :
          (CommandStep /\ LastAction' = line /\ C38_Blank(line))
          => /\ err' = "empty command"
             /\ LastResult' = LastResult
             /\ CurrentRoom' = CurrentRoom
             /\ Inventory' = Inventory
             /\ SolvedPuzzles' = SolvedPuzzles
             /\ PerformedActions' = PerformedActions
             /\ GameWon' = GameWon
             /\ Moves' = Moves + 1
             /\ CommandAttempts' = CommandAttempts + 1
             /\ fired' = << >>]_vars

\* a line of two blanks after the coin was taken: the error is returned,
\* the result of the take is still the result, and the line was counted
C38_Witness ==
    /\ LastAction = "  "
    /\ err = "empty command"
    /\ LastResult = "You take the Silver coin."
    /\ Moves = 2
    /\ CommandAttempts = 2

(***************************************************************************)
(* C39  `take <text>` resolves to the first non-hidden item, in the        *)
(* current room's declared order, whose name contains the text.  As        *)
(* claimed: if that item is already in the inventory the command reports   *)
(* "You already have that." and takes nothing, even when a later           *)
(* non-hidden item of the room also matches; and an item that is hidden at *)
(* the time of the command is never added to the inventory by take.        *)
(***************************************************************************)
\* the item `take <target>` resolves to, "" when the room shows none
C39_Resolved(target) ==
    IF C7_Visible(target) = {} THEN "" ELSE Here.Items[Min(C7_Visible(target))]

C39_TakeFirstVisible ==
    [][(CommandStep /\ verbOf[LastAction'] \in TakeVerbs /\ Target(LastAction') # "")
       => \A id \in {C39_Resolved(Target(LastAction'))} :
            /\ (id # "" /\ InSeq(Inventory, id))
                 => (LastResult' = "You already have that." /\ taken' = "")
            /\ taken' # "" => ~Hidden[GetItem(World, taken')]]_vars

\* C39 as amended: handleTake answers "You don't see that here." when the
\* room shows no item whose lower-cased name contains the text, answers
\* "You already have that." and takes nothing when the first such item is
\* held (whatever matches later in the room), and otherwise takes that
\* first item; what the handler left is the command's result and inventory
\* when no take action fires; and the item handleTake adds was not hidden.
C39_TakeFirstVisibleHandler ==
    [][(CommandStep /\ verbOf[LastAction'] \in TakeVerbs /\ Target(LastAction') # "")
       => \A id \in {C39_Resolved(Target(LastAction'))} :
          \A h \in {AtCall(LastAction')} :
            /\ IF id = ""
               THEN /\ h.LastResult = "You don't see that here."
                    /\ h.Inventory = Inventory /\ taken' = ""
               ELSE IF InSeq(Inventory, id)
               THEN /\ h.LastResult = "You already have that."
                    /\ h.Inventory = Inventory /\ taken' = ""
               ELSE /\ h.LastResult = "You take the "
                           \o World.Items[GetItem(World, id)].Name \o "."
                    /\ h.Inventory = Append(Inventory, id) /\ taken' = id
            /\ ~actionProcessed' => (LastResult' = h.LastResult /\ Inventory' = h.Inventory)
            /\ taken' # "" => ~Hidden[GetItem(World, taken')]]_vars

\* "get coin" was answered for the silver coin, which the player held, while
\* the gold coin, later in the room's list, was in view and not held
C39_Witness ==
    /\ LastAction = "get coin"
    /\ LastResult = "You already have that."
    /\ taken = ""
    /\ InSeq(Inventory, "coin")
    /\ ~InSeq(Inventory, "gold")
    /\ ~Hidden[GetItem(World, "gold")]
    /\ C7_Visible("coin") = {4, 5}

=============================================================================
